---------------------------- MODULE Spec2Model ----------------------------
(***************************************************************************)
(* The diagram reconciliation pass of bin/ADE_generate_diagrams.py:        *)
(* process_markdown_diagrams, the two renderer adapters,                   *)
(* compile_dot_to_file, cleanup_unused_diagrams and main;                  *)
(* update_diagram_links, clean_gen_dir and extract_documentation of        *)
(* bin/ADE_document.py; and the history table of                           *)
(* bin/ADE_project_history.py (get_commits, parse_existing_history and     *)
(* run_history_analysis).                                                  *)
(*                                                                         *)
(* A markdown document is a sequence of tokens: "text" (anything the two   *)
(* regular expressions do not match), "raw" (a ```mermaid fence, matched   *)
(* by MERMAID_REGEX, with or without its <details> wrapper), "details" (a  *)
(* <details> element that wraps no fence) and "figure" (a figure block,    *)
(* matched by FIGURE_REGEX).  A string is a sequence of one-character      *)
(* strings.  A                                                             *)
(* path is [dir, name, ext], dir being the sequence of its components; an  *)
(* absolute path starts with "/".  A link of a figure block is a path as   *)
(* the document writes it, relative to the document's directory or         *)
(* absolute.  A file's                                                     *)
(* content is [body, pad]: body identifies the text, pad says whether      *)
(* whitespace surrounds it (what str.strip() removes).  The content of an  *)
(* .svg written by a renderer has the body of the source it was rendered   *)
(* from.                                                                   *)
(***************************************************************************)
EXTENDS Integers, Sequences, FiniteSets, TLC

\* Runs of the tool and external edits a behaviour may hold.
MaxRuns == 2
MaxEdits == 1

-----------------------------------------------------------------------------
(* Characters and sanitize_name *)

\* The model's alphabet is Latin-1 (U+0000 to U+00FF).  The letters that
\* str.lower() changes, and what it makes of them:
UpperChars == <<"A","B","C","D","E","F","G","H","I","J","K","L","M",
                "N","O","P","Q","R","S","T","U","V","W","X","Y","Z",
                "À","Á","Â","Ã","Ä","Å","Æ","Ç","È","É","Ê","Ë","Ì",
                "Í","Î","Ï","Ð","Ñ","Ò","Ó","Ô","Õ","Ö","Ø","Ù","Ú",
                "Û","Ü","Ý","Þ">>
LowerChars == <<"a","b","c","d","e","f","g","h","i","j","k","l","m",
                "n","o","p","q","r","s","t","u","v","w","x","y","z",
                "à","á","â","ã","ä","å","æ","ç","è","é","ê","ë","ì",
                "í","î","ï","ð","ñ","ò","ó","ô","õ","ö","ø","ù","ú",
                "û","ü","ý","þ">>
DigitChars == <<"0","1","2","3","4","5","6","7","8","9">>
\* what \w matches: the letters, the digits, the letters without an
\* upper-case form in the alphabet, superscripts, fractions and "_"
UpperSet == {UpperChars[i] : i \in DOMAIN UpperChars}
WordSet == UpperSet \cup {LowerChars[i] : i \in DOMAIN LowerChars}
               \cup {DigitChars[i] : i \in DOMAIN DigitChars}
               \cup {"ª", "²", "³", "µ", "¹", "º", "¼", "½", "¾", "ß", "ÿ"}
               \cup {"_"}

IsUpper(c) == c \in UpperSet
ToLower(c) == IF IsUpper(c)
              THEN LowerChars[CHOOSE i \in DOMAIN UpperChars : UpperChars[i] = c]
              ELSE c
\* \w (the pattern is a str: Unicode-aware)
IsWordChar(c) == c \in WordSet
\* \s, and what str.strip() removes: tab, newline, vertical tab, form feed,
\* carriage return, U+001C to U+001F, space, U+0085 and U+00A0
SpaceSet == {"\t", "\n", "", "\f", "\r", "", "", "", "", " ", "", " "}
IsSpaceChar(c) == c \in SpaceSet
\* [\w\s-]
IsKeptChar(c) == IsWordChar(c) \/ IsSpaceChar(c) \/ c = "-"
\* [-\s]
IsSepChar(c) == IsSpaceChar(c) \/ c = "-"

RECURSIVE LStrip(_)
LStrip(s) == IF s # <<>> /\ IsSpaceChar(Head(s)) THEN LStrip(Tail(s)) ELSE s
RECURSIVE RStrip(_)
RStrip(s) == IF s # <<>> /\ IsSpaceChar(s[Len(s)])
             THEN RStrip(SubSeq(s, 1, Len(s) - 1)) ELSE s
\* str.strip()
StripStr(s) == RStrip(LStrip(s))
\* str.lower()
LowerStr(s) == [i \in DOMAIN s |-> ToLower(s[i])]

RECURSIVE DropSep(_)
DropSep(s) == IF s # <<>> /\ IsSepChar(Head(s)) THEN DropSep(Tail(s)) ELSE s
\* re.sub(r"[-\s]+", "_", s)
RECURSIVE CollapseSep(_)
CollapseSep(s) == IF s = <<>> THEN <<>>
                  ELSE IF IsSepChar(Head(s)) THEN <<"_">> \o CollapseSep(DropSep(s))
                  ELSE <<Head(s)>> \o CollapseSep(Tail(s))

sanitize_name(text) ==
    IF text = <<>> THEN <<>>
    ELSE CollapseSep(LowerStr(StripStr(SelectSeq(text, IsKeptChar))))

\* str(n) for a natural number
RECURSIVE Digits(_)
Digits(n) == IF n < 10 THEN <<DigitChars[n + 1]>>
             ELSE Digits(n \div 10) \o <<DigitChars[(n % 10) + 1]>>

-----------------------------------------------------------------------------
(* Texts, captions, paths and tokens *)

\* What a source text holds for extract_caption: a frontmatter title and a
\* Graphviz label, each absent (<<>>) or present (<<caption>>).  Text 0 is
\* the empty text; text 5 holds label=""; text 6 is the text of structure.dot.
Sources == <<
    [title |-> <<>>, label |-> <<>>],
    [title |-> <<>>, label |-> << <<"X", " ", "y", "!">> >>],
    [title |-> << <<"T", "-", "t">> >>, label |-> << <<"X", " ", "y", "!">> >>],
    [title |-> <<>>, label |-> <<>>],
    [title |-> <<>>, label |-> << <<>> >>],
    [title |-> <<>>, label |-> << <<"S", "y", "s", " ", "A">> >>] >>
SourceTitle(b) == IF b \in DOMAIN Sources THEN Sources[b].title ELSE <<>>
SourceLabel(b) == IF b \in DOMAIN Sources THEN Sources[b].label ELSE <<>>

Content(b, pad) == [body |-> b, pad |-> pad]
\* str.strip() of a file's or a fence's text
StripText(c) == [c EXCEPT !.pad = FALSE]
\* what a successful renderer writes for a source
Svg(code) == Content(code.body, FALSE)

\* project_root (resolved, hence absolute) and project_root/docs/assets/diagrams
RootDir == <<"/", "p">>
\* The directories the scripts may lie in: the project's bin directory, or
\* one outside the project (the scripts run on another project).
ScriptDirs == {RootDir \o <<"bin">>, <<"/", "opt", "bin">>}
\* ADE_document.py lines 23-27: what the import assigns to DOCS_DIR, the
\* docs directory beside the directory of the script
DefaultDocsDir(SCRIPT_DIR) ==
    LET DEFAULT_PROJECT_ROOT == SubSeq(SCRIPT_DIR, 1, Len(SCRIPT_DIR) - 1)
    IN DEFAULT_PROJECT_ROOT \o <<"docs">>
DiagramsDir == RootDir \o <<"docs", "assets", "diagrams">>
Path(dir, name, ext) == [dir |-> dir, name |-> name, ext |-> ext]

IsPrefix(s, t) == Len(s) <= Len(t) /\ SubSeq(t, 1, Len(s)) = s
IsAbsolute(p) == p.dir # <<>> /\ Head(p.dir) = "/"
\* Path.resolve() of a directory: its "." components are dropped and its
\* ".." components resolved (the parent of the root is the root)
RECURSIVE Normalize(_)
Normalize(dir) ==
    IF dir = <<>> THEN <<>>
    ELSE LET front == Normalize(SubSeq(dir, 1, Len(dir) - 1))
             last == dir[Len(dir)]
         IN IF last = "." THEN front
            ELSE IF last # ".." THEN Append(front, last)
            ELSE IF front = <<>> \/ front[Len(front)] = ".." THEN Append(front, last)
            ELSE IF front = <<"/">> THEN front
            ELSE SubSeq(front, 1, Len(front) - 1)
\* (md_file.parent / link).resolve(): an absolute link replaces the base
Resolve(base, link) ==
    [link EXCEPT !.dir = Normalize(IF IsAbsolute(link) THEN link.dir ELSE base \o link.dir)]
\* lines 264-269: path.relative_to(md_file.parent), which raises ValueError
\* unless the directory is an ancestor of the path; the path itself then
LinkTo(p, base) == IF IsPrefix(base, p.dir)
                   THEN [p EXCEPT !.dir = SubSeq(p.dir, Len(base) + 1, Len(p.dir))]
                   ELSE p
\* Path.suffix.lower(); a suffix is the string of its characters, the dot
\* included
LowerExt(e) == LowerStr(e)

Text(b, capc) == [t |-> "text", body |-> b, capc |-> capc]
Raw(code) == [t |-> "raw", text |-> code]
\* a ```dot fence: neither regular expression matches it
RawDot(code) == [t |-> "rawdot", text |-> code]
\* a ```mermaid fence in its <details> wrapper with the summary "Mermaid
\* Source", the image link after the wrapper included
Wrapped(code) == [t |-> "raw", text |-> code, wrapper |-> TRUE]
IsWrapper(tok) == tok.t = "raw" /\ "wrapper" \in DOMAIN tok
\* a <details> element that wraps no mermaid fence
Details == [t |-> "details"]
Figure(n, cap, img, src) ==
    [t |-> "figure", n |-> n, cap |-> cap, img |-> img, src |-> src]
\* A line "# See architecture: [title](link) <!-- @diagram: tag -->" of a
\* scanned file: marker is "#", "//" or "" (none), title a string, link a
\* path as the line writes it, tag a file name [name, ext].
See(marker, title, link, tag) ==
    [t |-> "see", marker |-> marker, title |-> title, link |-> link, tag |-> tag]

DefaultCaption == <<"d", "i", "a", "g", "r", "a", "m">>

\* extract_caption with the Graphviz label tried before the frontmatter title
extract_caption_LabelFirst(code, md, m) ==
    IF SourceLabel(code.body) # <<>> THEN StripStr(SourceLabel(code.body)[1])
    ELSE IF SourceTitle(code.body) # <<>> THEN StripStr(SourceTitle(code.body)[1])
    ELSE IF m > 1 /\ md[m - 1].t = "text" /\ md[m - 1].capc # <<>>
         THEN StripStr(md[m - 1].capc[1])
    ELSE <<"d", "i", "a", "g", "r", "a", "m">>

\* extract_caption(content, md_content, match_start): md is the document's
\* token sequence and m the position of the matched token.  The last
\* non-blank line before the match is a caption comment only when the token
\* before it is a text that ends with one (capc).
extract_caption(code, md, m) ==
    IF SourceTitle(code.body) # <<>> THEN StripStr(SourceTitle(code.body)[1])
    ELSE IF SourceLabel(code.body) # <<>> THEN StripStr(SourceLabel(code.body)[1])
    ELSE IF m > 1 /\ md[m - 1].t = "text" /\ md[m - 1].capc # <<>>
         THEN StripStr(md[m - 1].capc[1])
    ELSE DefaultCaption

\* a name without the figure number
NameBaseNoIndex(stem, count, slug) == stem \o <<"_">> \o slug

\* f"{md_file.stem}_{diagram_count}_{caption_slug}"
NameBase(stem, count, slug) == stem \o <<"_">> \o Digits(count) \o <<"_">> \o slug

\* A filesystem is a function from the paths of the existing files to their
\* contents.
Put(files, p, c) == [q \in (DOMAIN files) \cup {p} |-> IF q = p THEN c ELSE files[q]]
Remove(files, ps) == [q \in (DOMAIN files) \ ps |-> files[q]]

\* The matches of MERMAID_REGEX, then those of FIGURE_REGEX, sorted by start.
RECURSIVE SortByStart(_)
SortByStart(S) == IF S = {} THEN <<>>
                  ELSE LET lo == CHOOSE i \in S : \A j \in S : i <= j
                       IN <<lo>> \o SortByStart(S \ {lo})
\* Where the match of MERMAID_REGEX that starts at position j ends, 0 if
\* none starts there.  The first alternative starts at any "<details>" and
\* runs, lazily, to the first "<summary>Mermaid Source</summary>" after it
\* and on to the end of that wrapper; the second matches a fence.
MermaidEnd(md, j) ==
    LET wrappers == {w \in j..Len(md) : IsWrapper(md[w])}
    IN IF md[j].t = "raw" THEN j
       ELSE IF md[j].t = "details" /\ wrappers # {}
       THEN CHOOSE w \in wrappers : \A v \in wrappers : w <= v
       ELSE 0
\* finditer: the starts of the matches.  Each search goes on where the
\* match before it ended, so no match starts inside an earlier one; only a
\* match that starts at a "<details>" can hold other tokens.
MermaidMatches(md) ==
    {j \in DOMAIN md :
        /\ MermaidEnd(md, j) # 0
        /\ ~\E i \in 1..(j - 1) : md[i].t = "details" /\ MermaidEnd(md, i) >= j}
FigureMatches(md) == {i \in DOMAIN md : md[i].t = "figure"}
Matches(md) == SortByStart(MermaidMatches(md) \cup FigureMatches(md))

-----------------------------------------------------------------------------
(* The decisions of process_markdown_diagrams and cleanup_unused_diagrams *)

\* line 253: the tracking file is missing or its stripped text differs
SourceStale(files, src_path, block_content) ==
    \/ src_path \notin DOMAIN files
    \/ StripText(files[src_path]) # block_content

\* needed_recompile without the test of line 249 (the SVG is missing)
NeededRecompileSourceOnly(files, output_path, src_path, block_content) ==
    SourceStale(files, src_path, block_content)

\* lines 248-256: needed_recompile
NeededRecompile(files, output_path, src_path, block_content) ==
    \/ output_path \notin DOMAIN files
    \/ SourceStale(files, src_path, block_content)

\* lines 258-262: the renderer is called
RendererCalled(needed_recompile, check) == needed_recompile /\ ~check

\* registration of the SVG path alone
RegisterOutputOnly(valid, output_path, src_path) == valid \cup {output_path}

\* lines 243-245: both paths of a block are added to VALID_FILES
Register(valid, output_path, src_path) == valid \cup {output_path, src_path}

\* lines 295-302: the document is opened for writing
WriteBack(changed, check) == changed /\ ~check

\* compile_mermaid_to_svg / compile_dot_to_svg: the source is written to the
\* sibling file, then the renderer writes the SVG if it succeeds (ok).
CompileToSvg(files, code, output_path, ext, ok) ==
    LET written == Put(files, [output_path EXCEPT !.ext = ext], code)
    IN IF ok THEN Put(written, output_path, Svg(code)) ELSE written

\* lines 320-328: the files cleanup_unused_diagrams unlinks
Unused(files, valid) ==
    {p \in DOMAIN files : /\ p.dir = DiagramsDir
                          /\ p.ext \in {<<".", "s", "v", "g">>, <<".", "m", "m", "d">>}
                          /\ p \notin valid}

-----------------------------------------------------------------------------
(* The project *)

\* The documents a project may hold: a.md in the project root, b.md in the
\* directory sub, and c, which is sub/a.md.  A document that md_files does
\* not list is not there, and its text is <<>>.
DocIds == {"a", "b", "c"}
\* md_file.stem
Stem(d) == IF d = "c" THEN <<"a">> ELSE <<d>>
\* md_file.parent
DocDir(d) == IF d = "a" THEN RootDir ELSE RootDir \o <<"sub">>

ArtifactPath(d, count, caption, ext) ==
    Path(DiagramsDir, NameBase(Stem(d), count, sanitize_name(caption)), ext)
RoguePath(ext) == Path(DiagramsDir, <<"r", "o", "g", "u", "e">>, ext)
StructureDot == Path(RootDir, <<"s", "t", "r", "u", "c", "t", "u", "r", "e">>, <<".", "d", "o", "t">>)

CaptionComment == <<"S", " ", "f">>
CaptionLayout == <<"L", "a", "y">>

\* Documents a project may start with.  The last line of one of them is
\* "# See architecture: [T](old/a_1_diagram.svg) <!-- @diagram: a_1_diagram.svg -->".
InitDocsA ==
    LET SeeTag == [name |-> NameBase(<<"a">>, 1, sanitize_name(DefaultCaption)),
                   ext |-> <<".", "s", "v", "g">>]
    IN {
    << Raw(Content(1, FALSE)) >>,
    << Text(1, <<CaptionComment>>), Raw(Content(1, TRUE)), RawDot(Content(2, FALSE)),
       Text(1, <<CaptionComment>>), Raw(Content(3, FALSE)) >>,
    << Figure(2, DefaultCaption,
              LinkTo(ArtifactPath("a", 2, DefaultCaption, <<".", "s", "v", "g">>), DocDir("a")),
              LinkTo(ArtifactPath("a", 2, DefaultCaption, <<".", "m", "m", "d">>), DocDir("a"))),
       Raw(Content(1, FALSE)) >>,
    << Figure(1, CaptionLayout,
              LinkTo(ArtifactPath("a", 1, CaptionLayout, <<".", "s", "v", "g">>), DocDir("a")),
              LinkTo(StructureDot, DocDir("a"))) >>,
    << Figure(1, DefaultCaption,
              LinkTo(ArtifactPath("a", 1, DefaultCaption, <<".", "s", "v", "g">>), DocDir("a")),
              LinkTo(ArtifactPath("a", 1, DefaultCaption, <<".", "m", "m", "d">>), DocDir("a"))),
       See("#", <<"T">>, Path(<<"o", "l", "d">>, SeeTag.name, SeeTag.ext), SeeTag) >>,
    << Raw(Content(5, FALSE)) >> }
InitDocsB == { << Text(1, <<CaptionComment>>), Raw(Content(2, FALSE)) >> }

\* find_md_files: list(Path(root_dir).rglob("*.md")), in the order the file
\* system lists the documents.
MdFileOrders == { <<"a", "b">>, <<"b", "a">> }

\* Files a project may start with.
BaseFiles == Put(<<>>, StructureDot, Content(6, TRUE))
InitFiles == {
    BaseFiles,
    Put(Put(BaseFiles, RoguePath(<<".", "s", "v", "g">>), Content(0, FALSE)),
        RoguePath(<<".", "d", "o", "t">>), Content(4, FALSE)),
    Put(BaseFiles, ArtifactPath("a", 1, DefaultCaption, <<".", "s", "v", "g">>), Svg(Content(4, FALSE))),
    Put(Put(BaseFiles, ArtifactPath("a", 1, DefaultCaption, <<".", "s", "v", "g">>), Svg(Content(1, FALSE))),
        ArtifactPath("a", 1, DefaultCaption, <<".", "m", "m", "d">>), Content(1, TRUE)) }

-----------------------------------------------------------------------------
(* State *)

VARIABLES
    docs,             \* the text of each markdown document
    md_files,         \* the documents, in the order find_md_files lists them
    readable,         \* whether the document decodes as UTF-8
    fs,               \* the files other than the documents
    VALID_FILES,      \* the module's global set
    pc,               \* "idle", "scan" (the for loop over md_files),
                      \* "match" (the loop over matches), "cleanup",
                      \* "links" (step 4 of main)
    check_only,
    pending,          \* how many documents the for loop has still to visit
    files_to_update,
    md_file, content, k, last_idx, diagram_count, frags, file_changed,
    \* what an observer of the process records
    runs, edits,      \* runs started, external edits made
    start_docs, start_fs,   \* the project when the run started
    calls,            \* the renderer calls of the run, in order
    written,          \* the documents the run wrote
    differs,          \* the documents whose reconciled text differed
    deleted,          \* the files the run's cleanup unlinked
    exit_code,        \* of the last run that ended (-1: none)
    crashed,          \* the last run ended in an uncaught exception
    edited,           \* the external edits since the last run ended
    prev,             \* the run before this one
    \* the other tools
    extracted_docs,   \* what extract_documentation returned
    repo,             \* the commits of the git repository, oldest first
    DOCS_DIR,         \* the module globals of ADE_document.py, <<>> while
    GEN_DOCS_DIR      \* no process holds the module

progVars == <<docs, md_files, readable, fs, VALID_FILES, pc, check_only, pending, files_to_update>>
loopVars == <<md_file, content, k, last_idx, diagram_count, frags, file_changed>>
obsVars == <<runs, edits, start_docs, start_fs, calls, written, differs, deleted,
             exit_code, crashed, edited, prev>>
toolVars == <<extracted_docs, repo, DOCS_DIR, GEN_DOCS_DIR>>
vars == <<progVars, loopVars, obsVars, toolVars>>

\* the tracking files among files
IsTrackingFile(p) == p.dir = DiagramsDir /\ p.ext \in {<<".", "m", "m", "d">>, <<".", "d", "o", "t">>}
TrackingFiles(files) == [p \in {q \in DOMAIN files : IsTrackingFile(q)} |-> files[p]]
NoRun == [ran |-> FALSE, check |-> FALSE, crashed |-> FALSE, calls |-> <<>>,
          edited |-> {}, sources |-> <<>>]

LoopReset ==
    /\ md_file' = "none"
    /\ content' = <<>>
    /\ k' = 1
    /\ last_idx' = 1
    /\ diagram_count' = 0
    /\ frags' = <<>>
    /\ file_changed' = FALSE

Init ==
    /\ md_files \in MdFileOrders
    /\ readable \in [DocIds -> BOOLEAN]
    /\ readable["a"] /\ readable["c"]
    \* a document that does not decode has no text to speak of
    /\ \E da \in InitDocsA, db \in InitDocsB :
          docs = [d \in DocIds |-> IF d = "a" THEN da
                                   ELSE IF d = "b" /\ readable[d] THEN db ELSE <<>>]
    /\ fs \in InitFiles
    /\ VALID_FILES = {}
    /\ pc = "idle"
    /\ check_only = FALSE
    /\ pending = 0
    /\ files_to_update = {}
    /\ md_file = "none" /\ content = <<>> /\ k = 1 /\ last_idx = 1
    /\ diagram_count = 0 /\ frags = <<>> /\ file_changed = FALSE
    /\ runs = 0 /\ edits = 0
    /\ start_docs = docs /\ start_fs = fs
    /\ calls = <<>> /\ written = {} /\ differs = {} /\ deleted = {}
    /\ exit_code = -1 /\ crashed = FALSE /\ edited = {}
    /\ prev = NoRun
    /\ extracted_docs = <<>> /\ repo = <<>> /\ DOCS_DIR = <<>> /\ GEN_DOCS_DIR = <<>>

-----------------------------------------------------------------------------
(* main and process_markdown_diagrams *)

\* main(argv), then the call of process_markdown_diagrams up to the for
\* loop over find_md_files.  Nothing in main or below it assigns
\* VALID_FILES.
Main(check) ==
    /\ pc = "idle"
    /\ runs < MaxRuns
    /\ pc' = "scan"
    /\ check_only' = check
    /\ pending' = Len(md_files)
    /\ files_to_update' = {}
    /\ runs' = runs + 1
    /\ start_docs' = docs
    /\ start_fs' = fs
    /\ calls' = <<>>
    /\ written' = {}
    /\ differs' = {}
    /\ deleted' = {}
    /\ exit_code' = -1
    /\ crashed' = FALSE
    /\ prev' = [ran |-> runs > 0, check |-> check_only, crashed |-> crashed,
                calls |-> calls, edited |-> edited, sources |-> TrackingFiles(start_fs)]
    /\ edited' = {}
    /\ UNCHANGED <<docs, md_files, readable, fs, edits>>
    /\ UNCHANGED loopVars
    /\ UNCHANGED toolVars

\* The tool is run: a new process, whose VALID_FILES is the empty set of
\* line 11.
StartRun(check) ==
    /\ VALID_FILES' = {}
    /\ Main(check)

\* the document the for loop visits next
NextDoc == md_files[Len(md_files) - pending + 1]

\* lines 170-181: the loop takes the next document and reads it
OpenDoc(d) ==
    /\ pc = "scan"
    /\ pending > 0
    /\ d = NextDoc
    /\ readable[d]
    /\ md_file' = d
    /\ content' = docs[d]
    /\ k' = 1
    /\ last_idx' = 1
    /\ diagram_count' = 0
    /\ frags' = <<>>
    /\ file_changed' = FALSE
    /\ pc' = "match"
    /\ UNCHANGED <<docs, md_files, readable, fs, VALID_FILES, check_only, pending, files_to_update>>
    /\ UNCHANGED obsVars
    /\ UNCHANGED toolVars

\* lines 175-176: f.read() raises UnicodeDecodeError, which nothing catches:
\* the interpreter prints the traceback and exits with status 1.
OpenDocFails(d) ==
    /\ pc = "scan"
    /\ pending > 0
    /\ d = NextDoc
    /\ ~readable[d]
    /\ pc' = "idle"
    /\ exit_code' = 1
    /\ crashed' = TRUE
    /\ UNCHANGED <<docs, md_files, readable, fs, VALID_FILES, check_only, pending, files_to_update>>
    /\ UNCHANGED loopVars
    /\ UNCHANGED <<runs, edits, start_docs, start_fs, calls, written, differs, deleted,
                   edited, prev>>
    /\ UNCHANGED toolVars

\* The match the loop is at, and what lines 201-245 compute for it.
CurMatch == Matches(content)[k]
\* match.end(), and the token of the match that holds the fence or the links
CurEnd == LET j == CurMatch
          IN IF content[j].t = "figure" THEN j ELSE MermaidEnd(content, j)
CurToken == content[CurEnd]
CurCount == diagram_count + 1
\* lines 198-199, 209-210, 219-234: the match is passed over
Overlaps == CurMatch < last_idx
EmptyFence == CurToken.t = "raw" /\ CurToken.text = Content(0, FALSE)
\* lines 218, 229: the files the links of a figure block name
CurFigSrc == Resolve(DocDir(md_file), CurToken.src)
CurFigImg == Resolve(DocDir(md_file), CurToken.img)
SourceMissing == CurToken.t = "figure" /\ CurFigSrc \notin DOMAIN fs
ForeignSource == /\ CurToken.t = "figure"
                 /\ CurFigSrc \in DOMAIN fs
                 /\ LowerExt(CurToken.src.ext) \notin {<<".", "m", "m", "d">>, <<".", "d", "o", "t">>}
Reconciled == ~Overlaps /\ ~EmptyFence /\ ~SourceMissing /\ ~ForeignSource

CurBlockContent == IF CurToken.t = "raw" THEN StripText(CurToken.text)
                   ELSE StripText(fs[CurFigSrc])
\* the caption of a figure block taken from its source, like that of a fence
CurCaptionFromSource == extract_caption(CurBlockContent, content, CurMatch)

CurCaption == IF CurToken.t = "raw" THEN extract_caption(CurBlockContent, content, CurMatch)
              ELSE StripStr(CurToken.cap)
CurSourceExt == IF CurToken.t = "raw" THEN <<".", "m", "m", "d">> ELSE LowerExt(CurToken.src.ext)
CurNameBase == NameBase(Stem(md_file), CurCount, sanitize_name(CurCaption))
CurOutputPath == Path(DiagramsDir, CurNameBase, <<".", "s", "v", "g">>)
CurSrcPath == Path(DiagramsDir, CurNameBase, CurSourceExt)
\* lines 264-275
CurReplacement == Figure(CurCount, CurCaption, LinkTo(CurOutputPath, DocDir(md_file)),
                         LinkTo(CurSrcPath, DocDir(md_file)))

\* lines 196-234: a match that is passed over (continue)
SkipMatch ==
    /\ pc = "match"
    /\ k <= Len(Matches(content))
    /\ ~Reconciled
    /\ k' = k + 1
    /\ diagram_count' = IF Overlaps THEN diagram_count ELSE CurCount
    /\ VALID_FILES' = IF ~Overlaps /\ ForeignSource
                      THEN VALID_FILES \cup {CurFigSrc, CurFigImg}
                      ELSE VALID_FILES
    /\ UNCHANGED <<docs, md_files, readable, fs, pc, check_only, pending, files_to_update>>
    /\ UNCHANGED <<md_file, content, last_idx, frags, file_changed>>
    /\ UNCHANGED obsVars
    /\ UNCHANGED toolVars

\* lines 236-290: a match that is reconciled.  ok is the renderer's outcome
\* when it is called.
ReconcileMatch(ok) ==
    /\ pc = "match"
    /\ k <= Len(Matches(content))
    /\ Reconciled
    /\ LET stale == SourceStale(fs, CurSrcPath, CurBlockContent)
           needed == NeededRecompile(fs, CurOutputPath, CurSrcPath, CurBlockContent)
           called == RendererCalled(needed, check_only)
           saved == IF stale THEN Put(fs, CurSrcPath, CurBlockContent) ELSE fs
       IN /\ ok \in (IF called THEN BOOLEAN ELSE {TRUE})
          /\ fs' = IF called
                   THEN CompileToSvg(saved, CurBlockContent, CurOutputPath, CurSourceExt, ok)
                   ELSE saved
          /\ calls' = IF called
                      THEN Append(calls, [out |-> CurOutputPath, ok |-> ok,
                                          code |-> CurBlockContent])
                      ELSE calls
    /\ VALID_FILES' = Register(VALID_FILES, CurOutputPath, CurSrcPath)
    /\ frags' = frags \o SubSeq(content, last_idx, CurMatch - 1)
                      \o << IF CurToken # CurReplacement THEN CurReplacement ELSE CurToken >>
    /\ file_changed' = (file_changed \/ CurToken # CurReplacement)
    /\ last_idx' = CurEnd + 1
    /\ diagram_count' = CurCount
    /\ k' = k + 1
    /\ UNCHANGED <<docs, md_files, readable, pc, check_only, pending, files_to_update>>
    /\ UNCHANGED <<md_file, content>>
    /\ UNCHANGED <<runs, edits, start_docs, start_fs, written, differs, deleted,
                   exit_code, crashed, edited, prev>>
    /\ UNCHANGED toolVars

\* lines 292-302: the matches are exhausted
FinalContent == frags \o SubSeq(content, last_idx, Len(content))
CloseDoc ==
    /\ pc = "match"
    /\ k > Len(Matches(content))
    /\ docs' = IF WriteBack(file_changed, check_only)
               THEN [docs EXCEPT ![md_file] = FinalContent] ELSE docs
    /\ files_to_update' = IF file_changed /\ check_only
                          THEN files_to_update \cup {md_file} ELSE files_to_update
    /\ written' = IF WriteBack(file_changed, check_only) THEN written \cup {md_file}
                  ELSE written
    /\ differs' = IF FinalContent # content THEN differs \cup {md_file} ELSE differs
    /\ pending' = pending - 1
    /\ pc' = "scan"
    /\ LoopReset
    /\ UNCHANGED <<md_files, readable, fs, VALID_FILES, check_only>>
    /\ UNCHANGED <<runs, edits, start_docs, start_fs, calls, deleted, exit_code, crashed,
                   edited, prev>>
    /\ UNCHANGED toolVars

\* cleanup called from inside the for loop, once a document is done
LoopDoneAfterFirst == pending < Len(md_files)

\* the for loop over md_files has visited every document
LoopDone == pending = 0

\* lines 304-308 and main 366-370: in check mode the process ends here, with
\* status 1 if files_to_update is not empty
EndCheck ==
    /\ pc = "scan"
    /\ LoopDone
    /\ check_only
    /\ pc' = "idle"
    /\ exit_code' = IF files_to_update # {} THEN 1 ELSE 0
    /\ UNCHANGED <<docs, md_files, readable, fs, VALID_FILES, check_only, pending, files_to_update>>
    /\ UNCHANGED loopVars
    /\ UNCHANGED <<runs, edits, start_docs, start_fs, calls, written, differs, deleted,
                   crashed, edited, prev>>
    /\ UNCHANGED toolVars

\* main 366-370: process_markdown_diagrams returns and cleanup is called
EndProcess ==
    /\ pc = "scan"
    /\ LoopDone
    /\ ~check_only
    /\ pc' = "cleanup"
    /\ UNCHANGED <<docs, md_files, readable, fs, VALID_FILES, check_only, pending, files_to_update>>
    /\ UNCHANGED loopVars
    /\ UNCHANGED obsVars
    /\ UNCHANGED toolVars

\* Step 4 of main is update_diagram_links of bin/ADE_document.py
\* (bin/document.py is the same), which the run imports.

\* DIAGRAM_LINK matches the line: it asks for the comment marker
DiagramLinkMatches(tok) == tok.t = "see" /\ tok.marker \in {"#", "//"}

\* re.match(r"\[(.*?)\]", current_link).group(1): the title up to its first "]"
RECURSIVE TitleMatch(_)
TitleMatch(title) == IF title = <<>> \/ Head(title) = "]" THEN <<>>
                     ELSE <<Head(title)>> \o TitleMatch(Tail(title))

\* possible_locs, in the order they are tried; the last is in GEN_IMAGES_DIR
PossibleLocs(tag) ==
    << Path(DOCS_DIR \o <<"assets", "diagrams">>, tag.name, tag.ext),
       Path(DOCS_DIR \o <<"assets", "images">>, tag.name, tag.ext),
       Path(GEN_DOCS_DIR \o <<"images">>, tag.name, tag.ext) >>
\* found_loc: <<>> for None
FoundLoc(files, tag) ==
    LET hits == {j \in DOMAIN PossibleLocs(tag) : PossibleLocs(tag)[j] \in DOMAIN files}
    IN IF hits = {} THEN <<>>
       ELSE << PossibleLocs(tag)[CHOOSE j \in hits : \A h \in hits : j <= h] >>

\* os.path.relpath(path, start)
RECURSIVE CommonLen(_, _)
CommonLen(s, u) == IF s = <<>> \/ u = <<>> \/ Head(s) # Head(u) THEN 0
                   ELSE 1 + CommonLen(Tail(s), Tail(u))
RelPath(p, start) ==
    LET c == CommonLen(p.dir, start)
    IN [p EXCEPT !.dir = [j \in 1..(Len(start) - c) |-> ".."]
                           \o SubSeq(p.dir, c + 1, Len(p.dir))]

\* replace_link: what DIAGRAM_LINK.sub puts for a matched line of document d
replace_link(files, d, tok) ==
    IF FoundLoc(files, tok.tag) = <<>> THEN tok
    ELSE [tok EXCEPT !.title = TitleMatch(tok.title),
                     !.link = RelPath(FoundLoc(files, tok.tag)[1], DocDir(d))]

\* new_content of document d
NewContent(files, d, md) ==
    [i \in DOMAIN md |-> IF DiagramLinkMatches(md[i]) THEN replace_link(files, d, md[i])
                          ELSE md[i]]

\* main lines 368-376: cleanup_unused_diagrams, then the import of
\* ADE_document.  imported is the directory the module is found in, <<>>
\* when the import raises ImportError (ADE_document.py imports
\* ADE_config_utils at line 19).  A module the process has imported is not
\* imported again.
Cleanup(imported) ==
    /\ pc = "cleanup"
    /\ fs' = Remove(fs, Unused(fs, VALID_FILES))
    /\ deleted' = Unused(fs, VALID_FILES)
    /\ IF DOCS_DIR = <<>> /\ imported # <<>>
       THEN /\ DOCS_DIR' = DefaultDocsDir(imported)
            /\ GEN_DOCS_DIR' = DefaultDocsDir(imported) \o <<"gen">>
       ELSE UNCHANGED <<DOCS_DIR, GEN_DOCS_DIR>>
    /\ pc' = "links"
    /\ UNCHANGED <<docs, md_files, readable, VALID_FILES, check_only, pending, files_to_update>>
    /\ UNCHANGED loopVars
    /\ UNCHANGED <<runs, edits, start_docs, start_fs, calls, written, differs, exit_code,
                   crashed, edited, prev>>
    /\ UNCHANGED <<extracted_docs, repo>>

\* main lines 377-381: nothing when the import failed (lines 378-379);
\* otherwise update_diagram_links(project_root), which writes each file that
\* decodes and whose new content differs.  scanned are the files it got
\* through: all of them when it returns, those before the one at which an
\* exception was raised otherwise (lines 380-381).  Then main returns,
\* and the status is 0.
UpdateLinks(scanned) ==
    /\ pc = "links"
    /\ scanned \subseteq {md_files[i] : i \in DOMAIN md_files}
    /\ LET new_content == [d \in DocIds |->
                              IF DOCS_DIR # <<>> /\ d \in scanned /\ readable[d]
                              THEN NewContent(fs, d, docs[d]) ELSE docs[d]]
       IN /\ docs' = new_content
          /\ written' = written \cup {d \in DocIds : new_content[d] # docs[d]}
    /\ pc' = "idle"
    /\ exit_code' = 0
    /\ UNCHANGED <<md_files, readable, fs, VALID_FILES, check_only, pending, files_to_update>>
    /\ UNCHANGED loopVars
    /\ UNCHANGED <<runs, edits, start_docs, start_fs, calls, differs, deleted, crashed,
                   edited, prev>>
    /\ UNCHANGED <<extracted_docs, repo>>

\* The process of the tool ends when main returns (lines 383-384), and its
\* modules with it.
ExitRun(scanned) ==
    /\ UpdateLinks(scanned)
    /\ DOCS_DIR' = <<>>
    /\ GEN_DOCS_DIR' = <<>>

-----------------------------------------------------------------------------
(* What happens to the project between two runs *)

\* The files that figure blocks link to (lines 217-218, 228-229).
LinkedFiles ==
    {p \in DOMAIN fs : \E d \in DocIds : \E i \in DOMAIN docs[d] :
                            /\ docs[d][i].t = "figure"
                            /\ p \in {Resolve(DocDir(d), docs[d][i].img),
                                      Resolve(DocDir(d), docs[d][i].src)}}

\* A source file that a figure block links to is edited: another text, saved
\* with a final newline.
EditSource(p) ==
    /\ pc = "idle"
    /\ runs > 0
    /\ runs < MaxRuns
    /\ edits < MaxEdits
    /\ p \in LinkedFiles
    /\ p.ext \in {<<".", "m", "m", "d">>, <<".", "d", "o", "t">>}
    /\ fs' = [fs EXCEPT ![p] = Content(IF fs[p].body = 4 THEN 1 ELSE 4, TRUE)]
    /\ edited' = edited \cup {[path |-> p, kind |-> "edit"]}
    /\ edits' = edits + 1
    /\ UNCHANGED <<docs, md_files, readable, VALID_FILES, pc, check_only, pending, files_to_update>>
    /\ UNCHANGED loopVars
    /\ UNCHANGED <<runs, start_docs, start_fs, calls, written, differs, deleted,
                   exit_code, crashed, prev>>
    /\ UNCHANGED toolVars

\* A file that a figure block links to is deleted.
DeleteFile(p) ==
    /\ pc = "idle"
    /\ runs > 0
    /\ runs < MaxRuns
    /\ edits < MaxEdits
    /\ p \in LinkedFiles
    /\ fs' = Remove(fs, {p})
    /\ edited' = edited \cup {[path |-> p, kind |-> "delete"]}
    /\ edits' = edits + 1
    /\ UNCHANGED <<docs, md_files, readable, VALID_FILES, pc, check_only, pending, files_to_update>>
    /\ UNCHANGED loopVars
    /\ UNCHANGED <<runs, start_docs, start_fs, calls, written, differs, deleted,
                   exit_code, crashed, prev>>
    /\ UNCHANGED toolVars

Next ==
    \/ \E check \in BOOLEAN : StartRun(check)
    \/ \E d \in DocIds : OpenDoc(d)
    \/ \E d \in DocIds : OpenDocFails(d)
    \/ SkipMatch
    \/ \E ok \in BOOLEAN : ReconcileMatch(ok)
    \/ CloseDoc
    \/ EndCheck
    \/ EndProcess
    \/ \E imported \in ScriptDirs \cup {<<>>} : Cleanup(imported)
    \/ \E scanned \in SUBSET DocIds : ExitRun(scanned)
    \/ \E p \in DOMAIN fs : EditSource(p)
    \/ \E p \in DOMAIN fs : DeleteFile(p)

Spec == Init /\ [][Next]_vars

\* compile_dot_to_file(dot_file, output_dir, file_num), lines 68-100, with
\* the diagrams directory as output_dir.  The function is called by code
\* that imports the module (nothing in the repository calls it).  outcome is
\* that of the dot command: "ok", "failed" (CalledProcessError) or "missing"
\* (FileNotFoundError, sys.exit(1)).
CompileDotToFile(dot_file, file_num, outcome) ==
    /\ pc = "idle"
    /\ edits < MaxEdits
    /\ dot_file \in DOMAIN fs
    /\ LET caption == extract_caption(fs[dot_file], <<>>, 1)
           out_file == Path(DiagramsDir,
                            NameBase(dot_file.name, file_num, sanitize_name(caption)),
                            <<".", "s", "v", "g">>)
       IN /\ VALID_FILES' = VALID_FILES \cup {out_file}
          /\ fs' = IF outcome = "ok" THEN Put(fs, out_file, Svg(fs[dot_file])) ELSE fs
          /\ edited' = edited \cup {[path |-> out_file, kind |-> "compile"]}
    /\ exit_code' = IF outcome = "missing" THEN 1 ELSE exit_code
    /\ edits' = edits + 1
    /\ UNCHANGED <<docs, md_files, readable, pc, check_only, pending, files_to_update>>
    /\ UNCHANGED loopVars
    /\ UNCHANGED <<runs, start_docs, start_fs, calls, written, differs, deleted,
                   crashed, prev>>
    /\ UNCHANGED toolVars

\* cleanup_unused_diagrams(project_root), lines 310-333, called by code that
\* imports the module.
CallCleanup ==
    /\ pc = "idle"
    /\ edits < MaxEdits
    /\ fs' = Remove(fs, Unused(fs, VALID_FILES))
    /\ edited' = edited \cup {[path |-> p, kind |-> "cleanup"] : p \in Unused(fs, VALID_FILES)}
    /\ edits' = edits + 1
    /\ UNCHANGED <<docs, md_files, readable, VALID_FILES, pc, check_only, pending, files_to_update>>
    /\ UNCHANGED loopVars
    /\ UNCHANGED <<runs, start_docs, start_fs, calls, written, differs, deleted,
                   exit_code, crashed, prev>>
    /\ UNCHANGED toolVars

\* One process that imports the module and calls compile_dot_to_file,
\* main(argv) and cleanup_unused_diagrams in any order: VALID_FILES is the
\* module's global, so what compile_dot_to_file and earlier calls of main
\* added is still in it at the next call.  (A SystemExit raised by a call is
\* caught by the caller.)  Every behaviour is of that one process; the tool
\* run as a process of its own is StartRun, of the other specifications.
SpecCompileDot ==
    Init /\ [][ \/ \E check \in BOOLEAN : VALID_FILES' = VALID_FILES /\ Main(check)
                \/ \E d \in DocIds : OpenDoc(d)
                \/ \E d \in DocIds : OpenDocFails(d)
                \/ SkipMatch
                \/ \E ok \in BOOLEAN : ReconcileMatch(ok)
                \/ CloseDoc
                \/ EndCheck
                \/ EndProcess
                \/ \E imported \in ScriptDirs \cup {<<>>} : Cleanup(imported)
                \/ \E scanned \in SUBSET DocIds :
                      UNCHANGED <<DOCS_DIR, GEN_DOCS_DIR>> /\ UpdateLinks(scanned)
                \/ \E p \in DOMAIN fs : EditSource(p)
                \/ \E p \in DOMAIN fs : DeleteFile(p)
                \/ CallCleanup
                \/ \E p \in DOMAIN fs : \E n \in 1..2 :
                      \E outcome \in {"ok", "failed", "missing"} :
                         p.ext = <<".", "d", "o", "t">> /\ CompileDotToFile(p, n, outcome) ]_vars

\* The caption on the first line of a figure block is edited; the links of
\* the block are left as they are.
EditCaption(d) ==
    /\ pc = "idle"
    /\ runs > 0
    /\ runs < MaxRuns
    /\ edits < MaxEdits
    /\ readable[d]
    /\ \E i \in DOMAIN docs[d] : LET CaptionNew == <<"N", "e", "w">> IN
          /\ docs[d][i].t = "figure"
          /\ docs[d][i].cap # CaptionNew
          /\ docs' = [docs EXCEPT ![d][i].cap = CaptionNew]
          /\ edited' = edited \cup {[path |-> Resolve(DocDir(d), docs[d][i].src),
                                     kind |-> "caption", doc |-> d, at |-> i,
                                     old |-> docs[d][i].cap]}
    /\ edits' = edits + 1
    /\ UNCHANGED <<md_files, readable, fs, VALID_FILES, pc, check_only, pending, files_to_update>>
    /\ UNCHANGED loopVars
    /\ UNCHANGED <<runs, start_docs, start_fs, calls, written, differs, deleted,
                   exit_code, crashed, prev>>
    /\ UNCHANGED toolVars

NextCaption ==
    \/ Next
    \/ \E d \in DocIds : EditCaption(d)

\* The tool and a project whose sources and captions are edited between runs.
SpecCaption == Init /\ [][NextCaption]_vars

\* Projects with two documents of the same stem, a.md and sub/a.md.
StemDocsA == { << Raw(Content(1, FALSE)) >>,
               << Raw(Content(1, FALSE)), Raw(Content(3, FALSE)) >> }
StemDocsC == { << Raw(Content(4, FALSE)) >>, << Raw(Content(2, FALSE)) >> }
InitStems ==
    /\ md_files \in { <<"a", "c">>, <<"c", "a">> }
    /\ readable \in [DocIds -> BOOLEAN]
    /\ readable["a"] /\ readable["b"]
    /\ \E da \in StemDocsA, dc \in StemDocsC :
          docs = [d \in DocIds |-> IF d = "a" THEN da
                                   ELSE IF d = "c" /\ readable[d] THEN dc ELSE <<>>]
    /\ fs \in InitFiles
    /\ VALID_FILES = {}
    /\ pc = "idle"
    /\ check_only = FALSE
    /\ pending = 0
    /\ files_to_update = {}
    /\ md_file = "none" /\ content = <<>> /\ k = 1 /\ last_idx = 1
    /\ diagram_count = 0 /\ frags = <<>> /\ file_changed = FALSE
    /\ runs = 0 /\ edits = 0
    /\ start_docs = docs /\ start_fs = fs
    /\ calls = <<>> /\ written = {} /\ differs = {} /\ deleted = {}
    /\ exit_code = -1 /\ crashed = FALSE /\ edited = {}
    /\ prev = NoRun
    /\ extracted_docs = <<>> /\ repo = <<>> /\ DOCS_DIR = <<>> /\ GEN_DOCS_DIR = <<>>

SpecStems == InitStems /\ [][Next]_vars

\* Projects whose document a.md holds <details> elements.
PlainText == Text(1, <<>>)
WrappedDocsA == {
    << PlainText, Wrapped(Content(1, FALSE)), PlainText >>,
    << Wrapped(Content(1, FALSE)), PlainText, Details >>,
    << Details, PlainText, Raw(Content(1, FALSE)) >>,
    << PlainText, Details, PlainText, Wrapped(Content(1, FALSE)) >>,
    << Details, Raw(Content(4, FALSE)), PlainText, Wrapped(Content(1, TRUE)) >>,
    << Figure(2, DefaultCaption,
              LinkTo(ArtifactPath("a", 2, DefaultCaption, <<".", "s", "v", "g">>), DocDir("a")),
              LinkTo(ArtifactPath("a", 2, DefaultCaption, <<".", "m", "m", "d">>), DocDir("a"))),
       PlainText, Wrapped(Content(1, FALSE)) >> }
InitWrapped ==
    /\ md_files \in MdFileOrders
    /\ readable \in [DocIds -> BOOLEAN]
    /\ readable["a"] /\ readable["c"]
    /\ \E da \in WrappedDocsA, db \in InitDocsB :
          docs = [d \in DocIds |-> IF d = "a" THEN da
                                   ELSE IF d = "b" /\ readable[d] THEN db ELSE <<>>]
    /\ fs \in InitFiles
    /\ VALID_FILES = {}
    /\ pc = "idle"
    /\ check_only = FALSE
    /\ pending = 0
    /\ files_to_update = {}
    /\ md_file = "none" /\ content = <<>> /\ k = 1 /\ last_idx = 1
    /\ diagram_count = 0 /\ frags = <<>> /\ file_changed = FALSE
    /\ runs = 0 /\ edits = 0
    /\ start_docs = docs /\ start_fs = fs
    /\ calls = <<>> /\ written = {} /\ differs = {} /\ deleted = {}
    /\ exit_code = -1 /\ crashed = FALSE /\ edited = {}
    /\ prev = NoRun
    /\ extracted_docs = <<>> /\ repo = <<>> /\ DOCS_DIR = <<>> /\ GEN_DOCS_DIR = <<>>

SpecWrapped == InitWrapped /\ [][Next]_vars

\* The blocks of a document, in order: where the matches of lines 187-194
\* start, and where the block that starts at position i ends.
BlockPositions(md) == Matches(md)
BlockEnd(md, i) == IF md[i].t = "figure" THEN i ELSE MermaidEnd(md, i)
\* a document without its block at position i; with the blocks at i and j
\* (i before j) exchanged
WithoutBlock(md, i) == SubSeq(md, 1, i - 1) \o SubSeq(md, BlockEnd(md, i) + 1, Len(md))
Exchanged(md, i, j) ==
    SubSeq(md, 1, i - 1) \o SubSeq(md, j, BlockEnd(md, j))
        \o SubSeq(md, BlockEnd(md, i) + 1, j - 1) \o SubSeq(md, i, BlockEnd(md, i))
        \o SubSeq(md, BlockEnd(md, j) + 1, Len(md))

\* A document is edited between two runs: a mermaid fence is put at its
\* top, its first block is removed, or its first two blocks change places.
EditBlocks(d, kind) ==
    /\ pc = "idle"
    /\ runs > 0
    /\ runs < MaxRuns
    /\ edits < MaxEdits
    /\ readable[d]
    /\ \E n \in DOMAIN md_files : md_files[n] = d
    /\ LET at == BlockPositions(docs[d])
       IN CASE kind = "insert" ->
                 docs' = [docs EXCEPT ![d] = <<Raw(Content(4, FALSE))>> \o docs[d]]
            [] kind = "remove" ->
                 /\ Len(at) >= 1
                 /\ docs' = [docs EXCEPT ![d] = WithoutBlock(docs[d], at[1])]
            [] kind = "swap" ->
                 /\ Len(at) >= 2
                 /\ BlockEnd(docs[d], at[1]) < at[2]
                 /\ docs[d][at[1]] # docs[d][at[2]]
                 /\ docs' = [docs EXCEPT ![d] = Exchanged(docs[d], at[1], at[2])]
    /\ edited' = edited \cup {[path |-> d, kind |-> kind]}
    /\ edits' = edits + 1
    /\ UNCHANGED <<md_files, readable, fs, VALID_FILES, pc, check_only, pending, files_to_update>>
    /\ UNCHANGED loopVars
    /\ UNCHANGED <<runs, start_docs, start_fs, calls, written, differs, deleted,
                   exit_code, crashed, prev>>
    /\ UNCHANGED toolVars

NextBlocks ==
    \/ Next
    \/ \E d \in DocIds : EditBlocks(d, "insert")
    \/ \E d \in DocIds : EditBlocks(d, "remove")
    \/ \E d \in DocIds : EditBlocks(d, "swap")

\* The tool and a project whose documents gain, lose and reorder blocks
\* between runs.
SpecBlocks == Init /\ [][NextBlocks]_vars

-----------------------------------------------------------------------------
(* update_diagram_links called by main of bin/ADE_document.py               *)

TagF == [name |-> <<"f">>, ext |-> <<".", "s", "v", "g">>]
TagG == [name |-> <<"g">>, ext |-> <<".", "s", "v", "g">>]
TitlePlain == <<"T">>
TitleBracket == <<"F", " ", "[", "1", "]">>
LinkStale(tag) == Path(<<"bad">>, tag.name, tag.ext)

\* Documents a project scanned by update_diagram_links may hold.
LinkDocsA == {
    << See("#", TitlePlain, LinkStale(TagF), TagF) >>,
    << See("#", TitleBracket, LinkStale(TagF), TagF),
       See("//", TitlePlain, Path(<<"docs", "assets", "images">>, TagG.name, TagG.ext), TagG) >>,
    << See("", TitlePlain, LinkStale(TagF), TagF), See("#", TitlePlain, LinkStale(TagG), TagG) >>,
    << Text(1, <<>>), See("#", <<>>, Path(<<"..", "p", "docs", "assets", "images">>, TagF.name, TagF.ext), TagF) >> }
LinkDocsB == { << See("//", TitlePlain, LinkStale(TagF), TagF) >> }
\* The places a diagram may lie in: the three the tool looks in, and
\* gen/images of the project.
CandidateFiles ==
    {PossibleLocs(tag)[j] : tag \in {TagF, TagG}, j \in 1..3}
        \cup {Path(RootDir \o <<"docs", "gen", "images">>, TagF.name, TagF.ext)}

\* The globals when update_diagram_links or clean_gen_dir is called: as the
\* import left them (lines 27-28); as main assigned them in a project that
\* is a submodule (lines 790-793); or with DOCS_DIR alone set to the docs
\* directory of the scanned project (tests/test_document.py lines 131-132).
InitLinks ==
    /\ \E SCRIPT_DIR \in ScriptDirs :
          LET superproject_root == SubSeq(RootDir, 1, Len(RootDir) - 1)
          IN \E globals \in
                { <<DefaultDocsDir(SCRIPT_DIR), DefaultDocsDir(SCRIPT_DIR) \o <<"gen">> >>,
                  <<superproject_root \o <<"docs">>, superproject_root \o <<"docs", "gen">> >>,
                  <<RootDir \o <<"docs">>, DefaultDocsDir(SCRIPT_DIR) \o <<"gen">> >> } :
                DOCS_DIR = globals[1] /\ GEN_DOCS_DIR = globals[2]
    /\ md_files = <<"a", "b">>
    /\ readable \in [DocIds -> BOOLEAN]
    /\ readable["a"] /\ readable["c"]
    /\ \E da \in LinkDocsA, db \in LinkDocsB :
          docs = [d \in DocIds |-> IF d = "a" THEN da
                                   ELSE IF d = "b" /\ readable[d] THEN db ELSE <<>>]
    /\ fs \in {[q \in S |-> Content(0, FALSE)] :
                  S \in SUBSET {p \in CandidateFiles : p.name = TagF.name}}
    /\ VALID_FILES = {}
    /\ pc = "idle"
    /\ check_only = FALSE
    /\ pending = 0
    /\ files_to_update = {}
    /\ md_file = "none" /\ content = <<>> /\ k = 1 /\ last_idx = 1
    /\ diagram_count = 0 /\ frags = <<>> /\ file_changed = FALSE
    /\ runs = 0 /\ edits = 0
    /\ start_docs = docs /\ start_fs = fs
    /\ calls = <<>> /\ written = {} /\ differs = {} /\ deleted = {}
    /\ exit_code = -1 /\ crashed = FALSE /\ edited = {}
    /\ prev = NoRun
    /\ extracted_docs = <<>> /\ repo = <<>>

\* update_diagram_links(root_dir): every file that decodes is scanned, and
\* written if its new content differs
UpdateDiagramLinks ==
    /\ pc = "idle"
    /\ runs < MaxRuns
    /\ docs' = [d \in DocIds |-> IF readable[d] THEN NewContent(fs, d, docs[d]) ELSE docs[d]]
    /\ written' = {d \in DocIds : readable[d] /\ NewContent(fs, d, docs[d]) # docs[d]}
    /\ runs' = runs + 1
    /\ start_docs' = docs
    /\ start_fs' = fs
    /\ prev' = [ran |-> runs > 0, check |-> FALSE, crashed |-> FALSE,
                calls |-> <<>>, edited |-> edited, sources |-> TrackingFiles(start_fs)]
    /\ edited' = {}
    /\ UNCHANGED <<md_files, readable, fs, VALID_FILES, pc, check_only, pending, files_to_update>>
    /\ UNCHANGED loopVars
    /\ UNCHANGED <<edits, calls, differs, deleted, exit_code, crashed>>
    /\ UNCHANGED toolVars

\* A diagram appears in one of the three directories.
AddFile(p) ==
    /\ pc = "idle"
    /\ edits < MaxEdits
    /\ p \notin DOMAIN fs
    /\ fs' = Put(fs, p, Content(0, FALSE))
    /\ edited' = edited \cup {[path |-> p, kind |-> "add"]}
    /\ edits' = edits + 1
    /\ UNCHANGED <<docs, md_files, readable, VALID_FILES, pc, check_only, pending, files_to_update>>
    /\ UNCHANGED loopVars
    /\ UNCHANGED <<runs, start_docs, start_fs, calls, written, differs, deleted,
                   exit_code, crashed, prev>>
    /\ UNCHANGED toolVars

\* clean_gen_dir(): everything in GEN_DOCS_DIR is removed
CleanGenDir ==
    /\ pc = "idle"
    /\ fs' = Remove(fs, {p \in DOMAIN fs : IsPrefix(GEN_DOCS_DIR, p.dir)})
    /\ edited' = edited \cup {[path |-> p, kind |-> "delete"] :
                                p \in {q \in DOMAIN fs : IsPrefix(GEN_DOCS_DIR, q.dir)}}
    /\ UNCHANGED <<docs, md_files, readable, VALID_FILES, pc, check_only, pending, files_to_update>>
    /\ UNCHANGED loopVars
    /\ UNCHANGED <<runs, edits, start_docs, start_fs, calls, written, differs, deleted,
                   exit_code, crashed, prev>>
    /\ UNCHANGED toolVars

NextLinks ==
    \/ UpdateDiagramLinks
    \/ \E p \in CandidateFiles : AddFile(p)
    \/ CleanGenDir

SpecLinks == InitLinks /\ [][NextLinks]_vars

-----------------------------------------------------------------------------
(* extract_documentation of bin/ADE_document.py *)

\* Lines a scanned file may hold and the most of them a file holds.  A line
\* is a string that ends with its newline, as readlines() returns it.  No
\* line holds a markdown link, so the re.sub of fix_link leaves each as it is.
MaxLines == 4
DocMarker == <<"#", "#", " ", "@", "D", "O", "C">>
SourceLines == {
    DocMarker \o <<"\n">>,
    <<"/", "/", " ">> \o DocMarker \o <<"\n">>,
    <<"#", " ", "A", "\n">>,
    <<"#", "#", " ", "B", "\n">>,
    <<" ", "#", "C", " ", "\n">>,
    <<"\n">>,
    <<" ", "\n">>,
    <<"x", "=", "1", "\n">> }

\* str.startswith
StartsWith(s, prefix) == Len(prefix) <= Len(s) /\ SubSeq(s, 1, Len(prefix)) = prefix
DropFirst(s, n) == SubSeq(s, n + 1, Len(s))

\* DOC_BLOCK_START.match(line): ^\s*(?://\s*)?## @DOC\s*(.*)$
DOC_BLOCK_START(line) ==
    LET a == LStrip(line)
    IN \/ StartsWith(a, DocMarker)
       \/ StartsWith(a, <<"/", "/">>) /\ StartsWith(LStrip(DropFirst(a, 2)), DocMarker)

\* a comment line with every leading "#" and the blanks after them removed
clean_line_AllHashes(line) ==
    LET RECURSIVE drop(_)
        drop(t) == IF t # <<>> /\ Head(t) \in {"#", " "} THEN drop(Tail(t)) ELSE t
    IN drop(StripStr(line))

\* lines 141-149: the clean_line of a comment line of a .py or .sh file
clean_line(line) ==
    LET c == StripStr(line)
    IN IF StartsWith(c, <<"#", " ">>) THEN DropFirst(c, 2)
       ELSE IF StartsWith(c, <<"#">>) THEN DropFirst(c, 1)
       ELSE c

\* lines 130-187: the for loop over the lines of a .py or .sh file, from line
\* i on; capturing and current_doc_block are the loop's variables
RECURSIVE ScanLines(_, _, _, _)
ScanLines(lines, i, capturing, current_doc_block) ==
    IF i > Len(lines) THEN current_doc_block
    ELSE LET line == lines[i]
             stripped == StripStr(line)
         IN IF DOC_BLOCK_START(line)
            THEN ScanLines(lines, i + 1, TRUE, current_doc_block)
            ELSE IF ~capturing
            THEN ScanLines(lines, i + 1, FALSE, current_doc_block)
            ELSE IF StartsWith(stripped, <<"#">>)
            THEN ScanLines(lines, i + 1, TRUE, Append(current_doc_block, clean_line(line)))
            ELSE IF stripped # <<>>
            THEN ScanLines(lines, i + 1, FALSE, current_doc_block)
            ELSE ScanLines(lines, i + 1, TRUE, Append(current_doc_block, line))

\* "\n".join(block)
RECURSIVE JoinLines(_)
JoinLines(block) == IF block = <<>> THEN <<>>
                    ELSE IF Len(block) = 1 THEN block[1]
                    ELSE block[1] \o <<"\n">> \o JoinLines(Tail(block))

\* The scanned files: their paths relative to root_dir.
SrcFiles == {"m.py", "n.sh"}
\* lines 188-190: the files that get an entry, and the entry
ExtractedFiles(texts, ok) ==
    {f \in SrcFiles : ok[f] /\ ScanLines(texts[f], 1, FALSE, <<>>) # <<>>}
ExtractedDocs(texts, ok) ==
    [f \in ExtractedFiles(texts, ok) |-> JoinLines(ScanLines(texts[f], 1, FALSE, <<>>))]

RECURSIVE SeqsUpTo(_, _)
SeqsUpTo(S, n) == IF n = 0 THEN {<<>>}
                  ELSE LET shorter == SeqsUpTo(S, n - 1)
                       IN shorter \cup {Append(q, x) : q \in shorter, x \in S}

\* docs holds the lines of each scanned file; readable says whether the file
\* can be read.
InitDoc ==
    /\ md_files = <<>>
    /\ readable \in [SrcFiles -> BOOLEAN]
    /\ readable["m.py"]
    /\ \E lm \in SeqsUpTo(SourceLines, MaxLines) :
          docs = [f \in SrcFiles |->
                    IF f = "m.py" THEN lm
                    ELSE << DocMarker \o <<"\n">>, <<"#", "#", " ", "B", "\n">> >>]
    /\ fs = <<>>
    /\ VALID_FILES = {}
    /\ pc = "idle"
    /\ check_only = FALSE
    /\ pending = 0
    /\ files_to_update = {}
    /\ md_file = "none" /\ content = <<>> /\ k = 1 /\ last_idx = 1
    /\ diagram_count = 0 /\ frags = <<>> /\ file_changed = FALSE
    /\ runs = 0 /\ edits = 0
    /\ start_docs = docs /\ start_fs = fs
    /\ calls = <<>> /\ written = {} /\ differs = {} /\ deleted = {}
    /\ exit_code = -1 /\ crashed = FALSE /\ edited = {}
    /\ prev = NoRun
    /\ extracted_docs = <<>> /\ repo = <<>> /\ DOCS_DIR = DefaultDocsDir(RootDir \o <<"bin">>)
    /\ GEN_DOCS_DIR = DefaultDocsDir(RootDir \o <<"bin">>) \o <<"gen">>

\* extract_documentation(root_dir)
ExtractDocumentation ==
    /\ pc = "idle"
    /\ runs < MaxRuns
    /\ extracted_docs' = ExtractedDocs(docs, readable)
    /\ runs' = runs + 1
    /\ UNCHANGED progVars
    /\ UNCHANGED loopVars
    /\ UNCHANGED <<edits, start_docs, start_fs, calls, written, differs, deleted,
                   exit_code, crashed, edited, prev>>
    /\ UNCHANGED <<repo, DOCS_DIR, GEN_DOCS_DIR>>

SpecDoc == InitDoc /\ [][ExtractDocumentation]_vars

-----------------------------------------------------------------------------
(* run_history_analysis of bin/ADE_project_history.py *)

\* Commits a repository may hold.
MaxCommits == 3
\* commit["hash"][:7]
AbbrevLen == 7
\* %H of the n-th commit of the repository
CommitHash(n) == <<"c", "0", "f", "f", "e", "e">> \o Digits(n) \o <<"b">>
Abbrev(hash) == SubSeq(hash, 1, AbbrevLen)

\* The lines of docs/HISTORY.md: a text line (title, date, charts, blank),
\* the table header, the separator "|---|...", a data row.
HistoryPath == Path(RootDir \o <<"docs">>, <<"H", "I", "S", "T", "O", "R", "Y">>, <<".", "m", "d">>)
TextLine == [k |-> "text"]
HeaderLine == [k |-> "header"]
SepLine == [k |-> "sep"]
Row(hash) == [k |-> "row", commit |-> Abbrev(hash)]
\* re.search(r"\|\s*\d{4}-\d{2}-\d{2}\s*\|\s*`([^`]+)`", line)
IsDataRow(line) == line.k = "row"

\* parse_existing_history(file_path): <<>> for None
parse_existing_history(files, file_path) ==
    IF file_path \notin DOMAIN files THEN <<>>
    ELSE LET lines == files[file_path]
             hits == {i \in DOMAIN lines : IsDataRow(lines[i])}
         IN IF hits = {} THEN <<>>
            ELSE << lines[CHOOSE i \in hits : \A j \in hits : i <= j].commit >>

\* git log [since..HEAD] [-n limit]: the numbers of the commits, newest
\* first.  An abbreviation that names no commit, or more than one, makes git
\* fail, and run_git_command return None.
Newest(lo, hi) == [i \in 1..(hi - lo) |-> hi - i + 1]
get_commits(log, limit, since_commit) ==
    LET named == {n \in DOMAIN log : IsPrefix(since_commit[1], log[n])}
        all == IF since_commit = <<>> THEN Newest(0, Len(log))
               ELSE IF Cardinality(named) # 1 THEN <<>>
               ELSE Newest(CHOOSE n \in named : TRUE, Len(log))
    IN IF limit # 0 /\ limit < Len(all) THEN SubSeq(all, 1, limit) ELSE all

\* list.reverse()
Reverse(q) == [i \in DOMAIN q |-> q[Len(q) - i + 1]]

\* lines 493-514: since_commit and existing_content
LastTracked(files, incremental) ==
    IF incremental /\ HistoryPath \in DOMAIN files
    THEN parse_existing_history(files, HistoryPath) ELSE <<>>
ExistingContent(files, incremental) ==
    IF LastTracked(files, incremental) # <<>> THEN files[HistoryPath] ELSE <<>>

\* lines 516-530: the commits that are analysed, in the order of their rows
Analysed(files, log, incremental, reverse, limit) ==
    LET commits == get_commits(log, limit, LastTracked(files, incremental))
    IN IF reverse THEN Reverse(commits) ELSE commits

\* lines 665-718 and 1174-1180: the report.  final_output is put together
\* from the old report and the new rows; then the summary and the charts
\* (lines 720-1167, one text line here, none when neither the old report nor
\* the new rows hold a data row) are put in with list.insert(2, ...), which
\* appends when the list is shorter.
InsertIdx == 2
Report(existing_content, new_rows) ==
    LET seps == {i \in DOMAIN existing_content : existing_content[i].k = "sep"}
        top == <<TextLine, TextLine, TextLine, HeaderLine, SepLine>>
        final_output ==
            IF existing_content = <<>> THEN top \o new_rows
            ELSE IF seps # {}
            THEN top \o new_rows
                     \o SubSeq(existing_content,
                               (CHOOSE i \in seps : \A j \in seps : i <= j) + 1,
                               Len(existing_content))
            ELSE existing_content \o new_rows
        all == existing_content \o new_rows
        charts == IF \E i \in DOMAIN all : IsDataRow(all[i]) THEN <<TextLine>> ELSE <<>>
        at == IF InsertIdx < Len(final_output) THEN InsertIdx ELSE Len(final_output)
    IN SubSeq(final_output, 1, at) \o charts
           \o SubSeq(final_output, at + 1, Len(final_output))

\* fs holds docs/HISTORY.md once it is written, repo the full hashes of the
\* commits, calls the runs made.
InitHistory ==
    /\ md_files = <<>>
    /\ readable = <<>>
    /\ docs = <<>>
    /\ fs = <<>>
    /\ VALID_FILES = {}
    /\ pc = "idle"
    /\ check_only = FALSE
    /\ pending = 0
    /\ files_to_update = {}
    /\ md_file = "none" /\ content = <<>> /\ k = 1 /\ last_idx = 1
    /\ diagram_count = 0 /\ frags = <<>> /\ file_changed = FALSE
    /\ runs = 0 /\ edits = 0
    /\ start_docs = docs /\ start_fs = fs
    /\ calls = <<>> /\ written = {} /\ differs = {} /\ deleted = {}
    /\ exit_code = -1 /\ crashed = FALSE /\ edited = {}
    /\ prev = NoRun
    /\ extracted_docs = <<>>
    /\ repo = <<CommitHash(1)>>
    /\ DOCS_DIR = <<>> /\ GEN_DOCS_DIR = <<>>

\* git commit
Commit ==
    /\ Len(repo) < MaxCommits
    /\ repo' = Append(repo, CommitHash(Len(repo) + 1))
    /\ UNCHANGED progVars
    /\ UNCHANGED loopVars
    /\ UNCHANGED obsVars
    /\ UNCHANGED <<extracted_docs, DOCS_DIR, GEN_DOCS_DIR>>

\* run_history_analysis(root_dir, args) with args.since not given; limit 0
\* stands for no --limit
RunHistoryAnalysis(incremental, reverse, limit) ==
    /\ runs < MaxRuns
    /\ LET commits == Analysed(fs, repo, incremental, reverse, limit)
           new_rows == [i \in DOMAIN commits |-> Row(repo[commits[i]])]
       IN /\ fs' = IF commits = <<>> THEN fs
                   ELSE Put(fs, HistoryPath,
                            Report(ExistingContent(fs, incremental), new_rows))
          /\ calls' = Append(calls, [incremental |-> incremental, reverse |-> reverse,
                                     limit |-> limit, head |-> Len(repo),
                                     since |-> LastTracked(fs, incremental),
                                     commits |-> commits])
    /\ runs' = runs + 1
    /\ start_fs' = fs
    /\ UNCHANGED <<docs, md_files, readable, VALID_FILES, pc, check_only, pending, files_to_update>>
    /\ UNCHANGED loopVars
    /\ UNCHANGED <<edits, start_docs, written, differs, deleted, exit_code, crashed,
                   edited, prev>>
    /\ UNCHANGED toolVars

NextHistory ==
    \/ Commit
    \/ \E incremental \in BOOLEAN, reverse \in BOOLEAN, limit \in 0..2 :
          RunHistoryAnalysis(incremental, reverse, limit)

SpecHistory == InitHistory /\ [][NextHistory]_vars

-----------------------------------------------------------------------------
(* Properties *)

\* the last run has ended
RunEnded == pc = "idle" /\ runs > 0
\* ... in normal mode, through cleanup_unused_diagrams
NormalRunCompleted == RunEnded /\ ~check_only /\ ~crashed
\* the run before was a complete normal run too, and nothing was edited
\* between the two
SecondOfTwoRuns ==
    /\ NormalRunCompleted
    /\ prev.ran /\ ~prev.check /\ ~prev.crashed
    /\ prev.edited = {}
AllSucceeded(log) == \A i \in DOMAIN log : log[i].ok
CallsFor(log, out) == {i \in DOMAIN log : log[i].out = out}
\* the last call for out in the log failed
FailedLast(log, out) ==
    /\ CallsFor(log, out) # {}
    /\ \A i \in CallsFor(log, out) : (\A j \in CallsFor(log, out) : j <= i) => ~log[i].ok

\* C1: of two complete normal runs in succession, with every renderer call
\* succeeding and no edit between them, the second leaves every document as
\* the first left it and writes no document.
C1_Idempotent ==
    (SecondOfTwoRuns /\ AllSucceeded(prev.calls) /\ AllSucceeded(calls))
        => (docs = start_docs /\ written = {})

\* C2: as long as a run is in --check mode, every file is as it was when the
\* run started.
C2_CheckWritesNothing ==
    (runs > 0 /\ check_only /\ edited = {}) => (fs = start_fs /\ docs = start_docs)

\* C3: a --check run exits with status 1 if the reconciled text of a
\* processed document differs from its text, and with status 0 otherwise.
C3_CheckExitStatus ==
    (RunEnded /\ check_only) => (exit_code = (IF differs # {} THEN 1 ELSE 0))

\* C4: after a complete normal run no .svg, .dot or .mmd file outside the
\* ValidFileSet is left in the diagrams directory.
ArtifactSuffixes == {<<".", "s", "v", "g">>, <<".", "d", "o", "t">>, <<".", "m", "m", "d">>}
C4_NoOrphanLeft ==
    (NormalRunCompleted /\ edited = {})
        => \A p \in DOMAIN fs :
               (p.dir = DiagramsDir /\ p.ext \in ArtifactSuffixes) => p \in VALID_FILES


\* C5: cleanup_unused_diagrams starts only when the for loop has visited
\* every document, and no file it unlinks is in VALID_FILES, whatever the
\* order of the documents.
C5_CleanupAfterAll ==
    /\ pc = "cleanup" => (pending = 0 /\ md_file = "none")
    /\ deleted \cap VALID_FILES = {}
\* cleanup has unlinked a file and kept registered files of both documents
C5_Witness ==
    /\ NormalRunCompleted
    /\ deleted # {}
    /\ \E pa \in VALID_FILES \cap DOMAIN fs : Head(pa.name) = "a"
    /\ \E pb \in VALID_FILES \cap DOMAIN fs : Head(pb.name) = "b"

\* C6: in a normal run, the step that reconciles a match calls the renderer
\* if and only if, before the step, the SVG is missing, or the tracking file
\* is missing, or the tracking file's stripped text differs from the block's
\* stripped source.
C6_RenderIff ==
    [][ (pc = "match" /\ ~check_only /\ k <= Len(Matches(content)) /\ Reconciled)
          => ( (Len(calls') = Len(calls) + 1)
                 <=> ( \/ CurOutputPath \notin DOMAIN fs
                       \/ CurSrcPath \notin DOMAIN fs
                       \/ [fs[CurSrcPath] EXCEPT !.pad = FALSE]
                            # [CurBlockContent EXCEPT !.pad = FALSE] ) ) ]_vars
\* a normal run that called the renderer, followed by a normal run that
\* reconciled blocks and called none
C6_Witness ==
    /\ NormalRunCompleted
    /\ prev.ran /\ ~prev.check
    /\ prev.calls # <<>>
    /\ calls = <<>>
    /\ VALID_FILES # {}

\* the figure token at position i of document d of the project ds is in
\* canonical form: numbered by its rank, linking the artifacts of its name
MatchRank(md, i) == Cardinality({j \in 1..i : md[j].t \in {"raw", "figure"}})
Canonical(ds, d, i) ==
    LET tok == ds[d][i]
    IN /\ tok.t = "figure"
       /\ tok.n = MatchRank(ds[d], i)
       /\ Resolve(DocDir(d), tok.img) = ArtifactPath(d, tok.n, tok.cap, <<".", "s", "v", "g">>)
       /\ Resolve(DocDir(d), tok.src) = ArtifactPath(d, tok.n, tok.cap, tok.src.ext)

\* C7: when only the source of a canonical figure block was changed since a
\* complete normal run, the next normal run calls the renderer exactly once
\* for the block, and the tracking file then holds the new source.
C7_EditRecompilesOnce ==
    (NormalRunCompleted /\ prev.ran /\ ~prev.check /\ ~prev.crashed
                        /\ AllSucceeded(prev.calls))
        => \A d \in DocIds : \A i \in DOMAIN start_docs[d] :
              LET img == Resolve(DocDir(d), start_docs[d][i].img)
                  src == Resolve(DocDir(d), start_docs[d][i].src)
              IN ( /\ Canonical(start_docs, d, i)
                   /\ img \in DOMAIN start_fs
                   /\ prev.edited = {[path |-> src, kind |-> "edit"]} )
                 => /\ Cardinality(CallsFor(calls, img)) = 1
                    /\ src \in DOMAIN fs
                    /\ StripText(fs[src]) = StripText(start_fs[src])

\* C8: a block whose rendering failed in a normal run is rendered again by
\* the next normal run, when nothing was edited in between.
C8_FailureRetried ==
    (NormalRunCompleted /\ prev.ran /\ ~prev.check /\ prev.edited = {})
        => \A i \in DOMAIN prev.calls :
               FailedLast(prev.calls, prev.calls[i].out)
                   => CallsFor(calls, prev.calls[i].out) # {}

\* C9: a document that cannot be decoded is passed over: the run goes
\* through every document and through cleanup, and no exception ends it.
C9_BadDocumentSkipped ==
    (RunEnded /\ ~check_only) => (~crashed /\ pending = 0)

\* C10: after a renderer call failed, the block is replaced by a figure block
\* that links the target SVG, and the run goes on through every later
\* document.
C10_FailureDoesNotAbort ==
    (RunEnded /\ ~check_only)
        => \A i \in DOMAIN calls :
               ~calls[i].ok
                   => /\ pending = 0
                      /\ \E d \in DocIds : \E j \in DOMAIN docs[d] :
                            /\ docs[d][j].t = "figure"
                            /\ Resolve(DocDir(d), docs[d][j].img) = calls[i].out

\* C11: the counter of figure numbers goes up by one with every match that
\* is reconciled and stays as it is with every match that is passed over, so
\* the numbers a run assigns within a document are 1, 2, ..., k.
C11_CountsAcceptedOnly ==
    [][ (pc = "match" /\ k' = k + 1)
          => diagram_count' = diagram_count + (IF Reconciled THEN 1 ELSE 0) ]_vars

\* C19: the links of every figure block of every document are relative
\* (the projects start with relative links only, so an absolute link is one
\* the reconciler wrote).
C19_LinksRelative ==
    \A d \in DocIds : \A i \in DOMAIN docs[d] :
        docs[d][i].t = "figure"
            => ~IsAbsolute(docs[d][i].img) /\ ~IsAbsolute(docs[d][i].src)

\* the rank of the block at position i among the blocks of the document
BlockRank(md, i) == Cardinality({j \in 1..i : md[j].t \in {"raw", "rawdot", "figure"}})

\* C12: after a complete normal run every raw fence the documents held,
\* mermaid or dot, is a figure block numbered by its rank, and the figure
\* block of a dot fence links an existing .dot tracking file and its .svg.
C12_DotFenceReconciled ==
    (NormalRunCompleted /\ edited = {})
        => \A d \in DocIds : \A i \in DOMAIN start_docs[d] :
              start_docs[d][i].t \in {"raw", "rawdot"}
                  => /\ docs[d][i].t = "figure"
                     /\ docs[d][i].n = BlockRank(start_docs[d], i)
                     /\ start_docs[d][i].t = "rawdot"
                          => /\ docs[d][i].src.ext = <<".", "d", "o", "t">>
                             /\ Resolve(DocDir(d), docs[d][i].src) \in DOMAIN fs
                             /\ docs[d][i].img.name = docs[d][i].src.name

\* the slug the artifact name is to carry for a caption
SlugOrDefault(caption) ==
    IF sanitize_name(caption) = <<>> THEN DefaultCaption ELSE sanitize_name(caption)

\* C18: the caption of a block that is about to be reconciled is not empty,
\* and the name of its artifacts carries the caption's slug, or "diagram"
\* when the slug is empty.
C18_CaptionAndSlugNotEmpty ==
    (pc = "match" /\ k <= Len(Matches(content)) /\ Reconciled)
        => /\ CurCaption # <<>>
           /\ CurOutputPath.name = NameBase(Stem(md_file), CurCount, SlugOrDefault(CurCaption))

\* the caption comment on the last line before the block at position i
CommentBefore(md, i) == IF i > 1 /\ md[i - 1].t = "text" THEN md[i - 1].capc ELSE <<>>

\* C17: the figure block a complete normal run wrote for a mermaid fence
\* carries the frontmatter title if the source has one; else the Graphviz
\* label if it has one; else the caption comment before the fence if there
\* is one; else "diagram".
C17_CaptionPriority ==
    NormalRunCompleted
        => \A d \in DocIds : \A i \in DOMAIN start_docs[d] :
              start_docs[d][i].t = "raw"
                  => LET b == start_docs[d][i].text.body
                         cap == docs[d][i].cap
                         comment == CommentBefore(start_docs[d], i)
                     IN /\ docs[d][i].t = "figure"
                        /\ SourceTitle(b) # <<>> => cap = StripStr(SourceTitle(b)[1])
                        /\ (SourceTitle(b) = <<>> /\ SourceLabel(b) # <<>>)
                              => cap = StripStr(SourceLabel(b)[1])
                        /\ (SourceTitle(b) = <<>> /\ SourceLabel(b) = <<>> /\ comment # <<>>)
                              => cap = StripStr(comment[1])
                        /\ (SourceTitle(b) = <<>> /\ SourceLabel(b) = <<>> /\ comment = <<>>)
                              => cap = <<"d", "i", "a", "g", "r", "a", "m">>
\* a fence with a title, a label and a caption comment got the title, and a
\* fence with a label and a caption comment got the label
C17_Witness ==
    /\ NormalRunCompleted
    /\ \E i \in DOMAIN start_docs["a"] :
          /\ start_docs["a"][i] = Raw(Content(3, FALSE))
          /\ CommentBefore(start_docs["a"], i) # <<>>
          /\ docs["a"][i].t = "figure"
          /\ docs["a"][i].cap = <<"T", "-", "t">>
    /\ \E i \in DOMAIN start_docs["b"] :
          /\ start_docs["b"][i] = Raw(Content(2, FALSE))
          /\ CommentBefore(start_docs["b"], i) # <<>>
          /\ docs["b"][i].t = "figure"
          /\ docs["b"][i].cap = <<"X", " ", "y", "!">>

\* C14: the figure block the reconciler has just put into the new text of a
\* document links an .svg and a tracking file that lie in the diagrams
\* directory, are registered, and are both named stem_number_slug after the
\* document, the block's number and the slug of its caption.
C14_ArtifactNames ==
    (pc = "match" /\ frags # <<>>)
        => LET tok == frags[Len(frags)]
               img == Resolve(DocDir(md_file), tok.img)
               src == Resolve(DocDir(md_file), tok.src)
               base == <<md_file, "_">> \o Digits(tok.n) \o <<"_">> \o sanitize_name(tok.cap)
           IN /\ tok.t = "figure"
              /\ img = [dir |-> DiagramsDir, name |-> base, ext |-> <<".", "s", "v", "g">>]
              /\ src.dir = DiagramsDir /\ src.name = base /\ src.ext \in {<<".", "m", "m", "d">>, <<".", "d", "o", "t">>}
              /\ {img, src} \subseteq VALID_FILES
              /\ ~check_only => src \in DOMAIN fs
\* the blocks of a document with a caption comment, a dot fence and a title
\* got the artifacts a_1_s_f and a_2_t_t
C14_Witness ==
    /\ NormalRunCompleted
    /\ AllSucceeded(calls)
    /\ {[dir |-> DiagramsDir, name |-> <<"a", "_", "1", "_", "s", "_", "f">>, ext |-> <<".", "s", "v", "g">>],
        [dir |-> DiagramsDir, name |-> <<"a", "_", "1", "_", "s", "_", "f">>, ext |-> <<".", "m", "m", "d">>],
        [dir |-> DiagramsDir, name |-> <<"a", "_", "2", "_", "t", "_", "t">>, ext |-> <<".", "s", "v", "g">>],
        [dir |-> DiagramsDir, name |-> <<"a", "_", "2", "_", "t", "_", "t">>, ext |-> <<".", "m", "m", "d">>]}
          \subseteq DOMAIN fs

\* C15: after a complete normal run whose renderer calls succeeded, a figure
\* block that linked an existing .dot or .mmd file outside the diagrams
\* directory keeps the caption of its first line and links
\* stem_number_slug.svg and stem_number_slug.ext in the diagrams directory,
\* the latter holding the stripped text of the file it linked and the former
\* its rendering (unless both were there already); and the renderer was
\* called only for sources that blocks of the documents held or linked when
\* the run started.
C15_ExternalSourceAdopted ==
    /\ (NormalRunCompleted /\ AllSucceeded(calls) /\ edited = {})
        => \A d \in DocIds : \A i \in DOMAIN start_docs[d] :
              LET old == start_docs[d][i]
                  ext0 == Resolve(DocDir(d), old.src)
                  new == docs[d][i]
                  base == <<d, "_">> \o Digits(new.n) \o <<"_">> \o sanitize_name(old.cap)
                  svg == [dir |-> DiagramsDir, name |-> base, ext |-> <<".", "s", "v", "g">>]
                  trk == [dir |-> DiagramsDir, name |-> base, ext |-> ext0.ext]
              IN ( /\ old.t = "figure"
                   /\ ext0 \in DOMAIN start_fs
                   /\ ext0.dir # DiagramsDir
                   /\ ext0.ext \in {<<".", "d", "o", "t">>, <<".", "m", "m", "d">>} )
                 => /\ new.t = "figure"
                    /\ new.cap = old.cap
                    /\ Resolve(DocDir(d), new.img) = svg
                    /\ Resolve(DocDir(d), new.src) = trk
                    /\ {svg, trk} \subseteq DOMAIN fs
                    /\ fs[trk] = StripText(start_fs[ext0])
                    /\ (svg \notin DOMAIN start_fs \/ trk \notin DOMAIN start_fs)
                          => fs[svg] = Svg(start_fs[ext0])
    /\ \A c \in DOMAIN calls :
          \E d \in DocIds : \E i \in DOMAIN start_docs[d] :
              \/ /\ start_docs[d][i].t = "raw"
                 /\ StripText(start_docs[d][i].text) = calls[c].code
              \/ /\ start_docs[d][i].t = "figure"
                 /\ Resolve(DocDir(d), start_docs[d][i].src) \in DOMAIN start_fs
                 /\ StripText(start_fs[Resolve(DocDir(d), start_docs[d][i].src)]) = calls[c].code
\* structure.dot, whose label is not the block's caption, was adopted as
\* a_1_lay.dot and rendered
C15_Witness ==
    /\ NormalRunCompleted
    /\ \E i \in DOMAIN start_docs["a"] :
          /\ start_docs["a"][i].t = "figure"
          /\ Resolve(DocDir("a"), start_docs["a"][i].src) = StructureDot
    /\ [dir |-> DiagramsDir, name |-> <<"a", "_", "1", "_", "l", "a", "y">>, ext |-> <<".", "d", "o", "t">>]
          \in DOMAIN fs
    /\ [dir |-> DiagramsDir, name |-> <<"a", "_", "1", "_", "l", "a", "y">>, ext |-> <<".", "s", "v", "g">>]
          \in DOMAIN fs
    /\ \E c \in DOMAIN calls : calls[c].code = Content(6, FALSE) /\ calls[c].ok

\* the compiled artifact of the block at position i of document d is stale
\* in the project (ds, files): the block is a mermaid fence or a canonical
\* figure block whose source exists, and its .svg is missing, its tracking
\* file is missing, or the tracking file's text differs from its source
StaleBlock(ds, files, d, i) ==
    LET tok == ds[d][i]
    IN \/ /\ tok.t = "raw"
          /\ tok.text.body # 0
          /\ LET code == StripText(tok.text)
                 cap == extract_caption(code, ds[d], i)
                 n == MatchRank(ds[d], i)
             IN \/ ArtifactPath(d, n, cap, <<".", "s", "v", "g">>) \notin DOMAIN files
                \/ ArtifactPath(d, n, cap, <<".", "m", "m", "d">>) \notin DOMAIN files
                \/ StripText(files[ArtifactPath(d, n, cap, <<".", "m", "m", "d">>)]) # code
       \/ /\ Canonical(ds, d, i)
          /\ Resolve(DocDir(d), tok.src) \in DOMAIN files
          /\ Resolve(DocDir(d), tok.img) \notin DOMAIN files

\* C16: a --check run on a project in which a block of a readable document
\* has a stale artifact ends with status 1 and leaves the documents as they
\* were.
C16_CheckDetectsStale ==
    (RunEnded /\ check_only
       /\ \E d \in DocIds : \E i \in DOMAIN start_docs[d] :
             readable[d] /\ StaleBlock(start_docs, start_fs, d, i))
        => (exit_code = 1 /\ docs = start_docs)

\* C13: when only the caption of a canonical figure block whose artifacts
\* existed was changed between two complete normal runs with successful
\* renderer calls, then after the second run the artifacts under the new name
\* exist, those under the old name are gone, and cleanup has unlinked these
\* two files and no other.
C13_CaptionChangeRenames ==
    (NormalRunCompleted /\ prev.ran /\ ~prev.check /\ ~prev.crashed
                        /\ AllSucceeded(prev.calls) /\ AllSucceeded(calls))
        => \A e \in prev.edited :
              (prev.edited = {e} /\ e.kind = "caption")
                  => LET tok == start_docs[e.doc][e.at]
                         oldsvg == ArtifactPath(e.doc, tok.n, e.old, <<".", "s", "v", "g">>)
                         oldsrc == ArtifactPath(e.doc, tok.n, e.old, tok.src.ext)
                         newsvg == ArtifactPath(e.doc, tok.n, tok.cap, <<".", "s", "v", "g">>)
                         newsrc == ArtifactPath(e.doc, tok.n, tok.cap, tok.src.ext)
                     IN ( /\ tok.n = MatchRank(start_docs[e.doc], e.at)
                          /\ Resolve(DocDir(e.doc), tok.img) = oldsvg
                          /\ Resolve(DocDir(e.doc), tok.src) = oldsrc
                          /\ {oldsvg, oldsrc} \subseteq DOMAIN start_fs
                          /\ sanitize_name(tok.cap) # sanitize_name(e.old) )
                        => /\ {newsvg, newsrc} \subseteq DOMAIN fs
                           /\ {oldsvg, oldsrc} \cap DOMAIN fs = {}
                           /\ deleted = {oldsvg, oldsrc}

\* the file a tag stands for: the first of assets/diagrams, assets/images
\* and gen/images, of the docs directory the tool works with, that holds it
TagTarget(files, tag) ==
    LET dirs == << DOCS_DIR \o <<"assets", "diagrams">>,
                   DOCS_DIR \o <<"assets", "images">>,
                   GEN_DOCS_DIR \o <<"images">> >>
        at(j) == [dir |-> dirs[j], name |-> tag.name, ext |-> tag.ext]
    IN IF at(1) \in DOMAIN files THEN <<at(1)>>
       ELSE IF at(2) \in DOMAIN files THEN <<at(2)>>
       ELSE IF at(3) \in DOMAIN files THEN <<at(3)>>
       ELSE <<>>

\* C20: after update_diagram_links, every "See architecture" comment line of
\* a scanned document whose tag names a file of the three directories links
\* that file (the first that holds it) by a path relative to the document's
\* directory and keeps its title, and a line whose tag names no such file is
\* as it was; the documents written are those whose text changed; and an
\* invocation that follows another with nothing changed in between writes
\* nothing.
C20_LinksUpdated ==
    (runs > 0 /\ edited = {})
        => /\ \A d \in DocIds : \A i \in DOMAIN start_docs[d] :
                (readable[d] /\ start_docs[d][i].t = "see" /\ start_docs[d][i].marker # "")
                    => LET old == start_docs[d][i]
                           new == docs[d][i]
                           target == TagTarget(start_fs, old.tag)
                       IN IF target = <<>> THEN new = old
                          ELSE /\ new.title = old.title
                               /\ new.tag = old.tag /\ new.marker = old.marker
                               /\ ~IsAbsolute(new.link)
                               /\ Normalize(DocDir(d) \o new.link.dir) = target[1].dir
                               /\ new.link.name = target[1].name
                               /\ new.link.ext = target[1].ext
           /\ written = {d \in DocIds : docs[d] # start_docs[d]}
           /\ (prev.ran /\ prev.edited = {}) => (written = {} /\ docs = start_docs)

\* a comment line, a blank line
IsCommentLine(line) == LStrip(line) # <<>> /\ Head(LStrip(line)) = "#"
IsBlankLine(line) == \A i \in DOMAIN line : IsSpaceChar(line[i])
\* the lines the scanner is to capture: comment and blank lines that follow
\* a marker with nothing but markers, comment lines and blank lines between
CapturedLines(lines) ==
    {i \in DOMAIN lines :
        /\ ~DOC_BLOCK_START(lines[i])
        /\ IsCommentLine(lines[i]) \/ IsBlankLine(lines[i])
        /\ \E j \in 1..(i - 1) :
              /\ DOC_BLOCK_START(lines[j])
              /\ \A m \in (j + 1)..(i - 1) :
                    \/ DOC_BLOCK_START(lines[m])
                    \/ IsCommentLine(lines[m])
                    \/ IsBlankLine(lines[m])}
\* a captured line as it is to appear: a comment line trimmed, without its
\* first "#" and the one blank after it; a blank line as it is
Uncommented(line) ==
    IF IsBlankLine(line) THEN line
    ELSE LET rest == Tail(StripStr(line))
         IN IF rest # <<>> /\ Head(rest) = " " THEN Tail(rest) ELSE rest

\* C21: after extract_documentation, a readable .py or .sh file has an entry
\* exactly if it has a captured line, and the entry is the captured lines in
\* their order, joined by newlines; a line before the first marker, a marker
\* line and a line after the first line that is neither a comment nor blank
\* (until the next marker) is not captured.
C21_LineScanner ==
    runs > 0
        => \A f \in SrcFiles :
              LET at == SortByStart(CapturedLines(docs[f]))
              IN IF ~readable[f] \/ at = <<>>
                 THEN f \notin DOMAIN extracted_docs
                 ELSE /\ f \in DOMAIN extracted_docs
                      /\ extracted_docs[f]
                           = JoinLines([n \in DOMAIN at |-> Uncommented(docs[f][at[n]])])
\* a file with a comment before the marker, a captured "## B", a statement
\* and a comment after it gave "# B"; a file that cannot be read gave nothing
C21_Witness ==
    /\ runs > 0
    /\ \E i \in 1..2 :
          /\ Len(docs["m.py"]) = i + 3
          /\ DOC_BLOCK_START(docs["m.py"][i])
          /\ docs["m.py"][i + 1] = <<"#", "#", " ", "B", "\n">>
          /\ docs["m.py"][i + 2] = <<"x", "=", "1", "\n">>
          /\ docs["m.py"][i + 3] = <<"#", " ", "A", "\n">>
          /\ (i = 2 => docs["m.py"][1] = <<"#", " ", "A", "\n">>)
    /\ extracted_docs["m.py"] = <<"#", " ", "B">>
    /\ ~readable["n.sh"]
    /\ "n.sh" \notin DOMAIN extracted_docs

\* the commits the rows of the report name, in the order of the rows
RowCommits(files) ==
    IF HistoryPath \notin DOMAIN files THEN <<>>
    ELSE LET rows == SelectSeq(files[HistoryPath], IsDataRow)
         IN [i \in DOMAIN rows |-> rows[i].commit]
\* the number of the commit of the repository a row names
CommitNumber(abbrev) == CHOOSE n \in DOMAIN repo : Abbrev(repo[n]) = abbrev

\* C22: an incremental run on a report with data rows takes the commit of the
\* first data row as the lower bound, that commit is the most recent one the
\* report records, and every commit the run analyses is newer than every
\* commit the report recorded; a run finds no lower bound in a report that is
\* missing or has no data row.
C22_SinceMostRecent ==
    runs > 0
        => LET run == calls[Len(calls)]
               recorded == RowCommits(start_fs)
           IN IF run.incremental /\ recorded # <<>>
              THEN /\ run.since = <<recorded[1]>>
                   /\ \A i \in DOMAIN recorded :
                         CommitNumber(recorded[i]) <= CommitNumber(run.since[1])
                   /\ \A i \in DOMAIN recorded : \A j \in DOMAIN run.commits :
                         CommitNumber(recorded[i]) < run.commits[j]
              ELSE run.since = <<>>

\* C30: when every run after the first is incremental and the repository
\* gained a commit before each of them, no two rows of the report name the
\* same commit, and every row the report held before a run is still there.
C30_NoDuplicateRows ==
    ( /\ runs > 0
      /\ \A i \in 2..Len(calls) :
            calls[i].incremental /\ calls[i].head > calls[i - 1].head )
        => LET rows == RowCommits(fs)
               before == RowCommits(start_fs)
           IN /\ \A i \in DOMAIN rows : \A j \in DOMAIN rows : rows[i] = rows[j] => i = j
              /\ \A i \in DOMAIN before : \E j \in DOMAIN rows : rows[j] = before[i]

\* C26: after a complete normal run, every file that a figure block of a
\* document links, as image or as source, exists if it existed when the run
\* started; also when the block was passed over because its source is
\* missing or is neither .mmd nor .dot.
C26_CleanupKeepsLinkedFiles ==
    (NormalRunCompleted /\ edited = {})
        => \A d \in DocIds : \A i \in DOMAIN docs[d] :
              docs[d][i].t = "figure"
                  => \A p \in {Resolve(DocDir(d), docs[d][i].img),
                               Resolve(DocDir(d), docs[d][i].src)} :
                        p \in DOMAIN start_fs => p \in DOMAIN fs

\* C28: the step that reconciles a block puts the block's SVG path and its
\* tracking path into VALID_FILES, whether the renderer is called or not and
\* whatever it returns; no step of a run takes a path out of VALID_FILES; and
\* cleanup leaves VALID_FILES as it is and unlinks no file that is in it.
C28_RegisteredWhateverTheOutcome ==
    [][ /\ (pc = "match" /\ k <= Len(Matches(content)) /\ Reconciled)
            => {CurOutputPath, CurSrcPath} \subseteq VALID_FILES'
        /\ pc \in {"scan", "match", "cleanup", "links"} => VALID_FILES \subseteq VALID_FILES'
        /\ pc = "cleanup"
            => /\ VALID_FILES' = VALID_FILES
               /\ \A p \in VALID_FILES : p \in DOMAIN fs => p \in DOMAIN fs' ]_vars
\* a complete normal run in which the renderer failed for a block whose SVG
\* existed: the SVG and the tracking file are still there
C28_Witness ==
    /\ NormalRunCompleted
    /\ \E c \in DOMAIN calls :
          /\ ~calls[c].ok
          /\ calls[c].out \in DOMAIN start_fs
          /\ {calls[c].out, [calls[c].out EXCEPT !.ext = <<".", "m", "m", "d">>]} \subseteq DOMAIN fs \cap VALID_FILES

\* C29: the documents a run has written are, in normal mode, the processed
\* documents whose reconciled text differs from their text, and none in
\* check mode; a document that was not written is as it was when the run
\* started.  (Step 4 of main writes a document whose blocks did not change.)
C29_WrittenIffChanged ==
    runs > 0
        => /\ written = (IF check_only THEN {} ELSE differs)
           /\ \A d \in DocIds : d \notin written => docs[d] = start_docs[d]

\* C23: after a complete normal run, a figure block that linked an existing
\* source file when the run started is a figure block that links a source
\* file with the same text, whatever edit of the document went before the
\* run.
C23_SourcesPreserved ==
    (NormalRunCompleted /\ edited = {})
        => \A d \in DocIds : \A i \in DOMAIN start_docs[d] :
              ( /\ start_docs[d][i].t = "figure"
                /\ Resolve(DocDir(d), start_docs[d][i].src) \in DOMAIN start_fs )
                  => /\ docs[d][i].t = "figure"
                     /\ Resolve(DocDir(d), docs[d][i].src) \in DOMAIN fs
                     /\ StripText(fs[Resolve(DocDir(d), docs[d][i].src)])
                          = StripText(start_fs[Resolve(DocDir(d), start_docs[d][i].src)])

\* C25: the block that a run is about to reconcile is assigned an SVG path
\* and a tracking path that no block of the run was assigned before it; and
\* after a complete normal run the tracking file that the figure block of a
\* mermaid fence links holds the source of that fence.
C25_DistinctArtifactPaths ==
    /\ (pc = "match" /\ k <= Len(Matches(content)) /\ Reconciled)
          => {CurOutputPath, CurSrcPath} \cap VALID_FILES = {}
    /\ (NormalRunCompleted /\ edited = {})
          => \A d \in DocIds : \A i \in DOMAIN start_docs[d] :
                (start_docs[d][i].t = "raw" /\ start_docs[d][i].text.body # 0)
                    => /\ docs[d][i].t = "figure"
                       /\ Resolve(DocDir(d), docs[d][i].src) \in DOMAIN fs
                       /\ StripText(fs[Resolve(DocDir(d), docs[d][i].src)])
                            = StripText(start_docs[d][i].text)

\* what a document holds outside its diagram blocks, in order
IsOutsideBlocks(tok) == tok.t \notin {"raw", "figure"}
OutsideBlocks(md) == SelectSeq(md, IsOutsideBlocks)

\* C27: after a complete normal run, a document holds outside its diagram
\* blocks what it held outside them when the run started, in the same order
\* (the text and the <details> elements that are no Mermaid Source wrappers);
\* and a figure block whose source file was missing when the run started is
\* still in the document as it was.
C27_OnlyBlocksRewritten ==
    (NormalRunCompleted /\ edited = {})
        => \A d \in DocIds :
              /\ OutsideBlocks(docs[d]) = OutsideBlocks(start_docs[d])
              /\ \A i \in DOMAIN start_docs[d] :
                    ( /\ start_docs[d][i].t = "figure"
                      /\ Resolve(DocDir(d), start_docs[d][i].src) \notin DOMAIN start_fs )
                        => \E j \in DOMAIN docs[d] : docs[d][j] = start_docs[d][i]

\* the tracking files that differ between two states of the file system
TrackingChanged(before, after) ==
    {p \in DOMAIN after : /\ IsTrackingFile(p)
                          /\ (p \notin DOMAIN before \/ before[p] # after[p])}
\* the SVG beside a tracking file is rendered from the tracking file's text
RenderedFrom(files, p) ==
    /\ [p EXCEPT !.ext = <<".", "s", "v", "g">>] \in DOMAIN files
    /\ files[[p EXCEPT !.ext = <<".", "s", "v", "g">>]] = Svg(files[p])
\* a complete normal run whose renderer calls succeeded, straight after a
\* --check run of the same project
NormalAfterCheck ==
    /\ NormalRunCompleted /\ edited = {}
    /\ prev.ran /\ prev.check /\ ~prev.crashed
    /\ AllSucceeded(calls)
\* a complete normal run whose renderer calls succeeded, on its own
NormalAlone ==
    /\ NormalRunCompleted /\ edited = {}
    /\ ~prev.ran
    /\ AllSucceeded(calls)

\* C24: a --check run followed by a normal run ends as the normal run alone
\* does.  The normal run alone, with renderers that succeed, renders the SVG
\* of every tracking file it creates or changes; so after the two runs every
\* tracking file that was created or changed since the --check run started
\* has its SVG rendered from the tracking file's text.
C24_CheckThenNormalAsNormal ==
    NormalAfterCheck => \A p \in TrackingChanged(prev.sources, fs) : RenderedFrom(fs, p)
\* what the normal run alone does
C24_NormalAloneRenders ==
    NormalAlone => \A p \in TrackingChanged(start_fs, fs) : RenderedFrom(fs, p)

=============================================================================
